---- MODULE Spec2Model ----
(***************************************************************************)
(* Model of the ingestion pipeline of streamlit_dashboard.py:              *)
(* GarminDataAnalyzer (extract_zip, find_files, safe_parse_timestamp, the  *)
(* five load_* methods, load_all_data), the part of main() that runs a     *)
(* session, and the merge step of create_correlation_analysis.             *)
(*                                                                         *)
(* Abstractions.  A calendar date is a day number in Days; NaT (pandas'    *)
(* missing timestamp) is 0.  A raw JSON value that holds a date or a       *)
(* timestamp is a pair <<kind, day>>: kind "iso" is a calendar string,     *)
(* "ms" the epoch-milliseconds number of that day (above 1e12), "none" a   *)
(* null, "absent" a key the record does not have; <<"num", v>> is the      *)
(* number v * 1e9, <<"str", 0>> a string that is no date and <<"obj", 0>>  *)
(* a value on which the numeric classification raises.  A                  *)
(* DataFrame is [kind |-> "df", rows, cols]: rows is the sequence of its   *)
(* rows in index order (idx is the pandas index of the row), cols the set  *)
(* of the optional columns it has; None is [kind |-> "null"].              *)
(***************************************************************************)
EXTENDS Integers, Sequences, FiniteSets, TLC

\* Bounds of the model
MaxDay == 2      \* calendar dates are 1..MaxDay
MaxSize == 2     \* size of an archive (Init): its files, or their records and nested objects
MaxExport == 3   \* records of a well-formed export (InitExport)
MaxDiary == 5    \* days of a daily export (InitDiary)
MaxValue == 2    \* the cells of a table of numbers are 0..MaxValue (InitCorr)
MaxColumn == 3   \* values of a column of raw timestamps (InitTimestamp)
MaxBatch == 2    \* records of a batch given to one loader (InitActivities, InitSleep)
MaxLoads == 2    \* calls of load_all_data on one instance (reload)

Days == 1..MaxDay
DiaryDays == 1..MaxDiary
\* the last calendar date of any input
LastDay == IF MaxDiary > MaxDay THEN MaxDiary ELSE MaxDay
NaT == 0
NullVal == -1    \* a null cell of the merged table

Domains == {"activities", "sleep", "health", "hydration", "uds"}

None == [kind |-> "null"]
Unset == [kind |-> "unset"]
DataFrame(rows, cols) == [kind |-> "df", rows |-> rows, cols |-> cols]

(***************************************************************************)
(* The input: the archive and the JSON documents it holds.                 *)
(***************************************************************************)
RawCalendarDate == {<<"iso", d>> : d \in Days} \cup {<<"none", 0>>}
RawActivityTimestamp == {<<"ms", d>> : d \in Days} \cup {<<"none", 0>>}

\* A raw JSON measurement is a pair too: <<"val", n>> is the number n.
Absent == <<"absent", 0>>
Null == <<"none", 0>>

\* an activity with start time t and none of the measurement keys
Activity(t) ==
    [startTimeLocal |-> t, startTimeGmt |-> Absent, beginTimestamp |-> Absent,
     activityId |-> TRUE, distance |-> Absent, elapsedDuration |-> Absent,
     duration |-> Absent, bmrCalories |-> Absent, calories |-> Absent, avgHr |-> Absent,
     averageHR |-> Absent]

\* a night of calendar date c with none of the measurement keys; a
\* sleepScores object is <<"dict", f>>, f the function of its fields
Night(c) ==
    [calendarDate |-> c, deepSleepSeconds |-> Absent, lightSleepSeconds |-> Absent,
     remSleepSeconds |-> Absent, awakeSleepSeconds |-> Absent, sleepScores |-> Absent]
RawHydrationTimestamp ==
    {<<"ms", d>> : d \in Days} \cup {<<"none", 0>>, <<"absent", 0>>}

\* the metric lists and the statistics lists of the modelled records
MetricLists == {{"HRV"}}
StatLists == {{}, {"HIGHEST", "LOWEST"}}

\* one entry of allDayStress.aggregatorList; nullDuration: one of its
\* duration sub-fields is present but null
Aggregators == {[type |-> "TOTAL", nullDuration |-> FALSE],
                [type |-> "AWAKE", nullDuration |-> FALSE],
                [type |-> "TOTAL", nullDuration |-> TRUE]}

\* record.bodyBattery: has = FALSE is an absent, null or empty object
BodyBatteryObjects(w) ==
    IF w = 0 THEN {[has |-> FALSE, stats |-> {}]}
    ELSE {[has |-> TRUE, stats |-> s] : s \in StatLists}

RECURSIVE SeqsOfLen(_, _)
SeqsOfLen(S, n) ==
    IF n = 0 THEN {<<>>}
    ELSE {Append(p[1], p[2]) : p \in SeqsOfLen(S, n - 1) \X S}

\* the records of domain d of size w; the size of a UDS record is 1 plus
\* the number of its nested objects (bodyBattery, aggregators).  aggs = <<>>
\* is a record without allDayStress or without aggregatorList.
RecordsOfWeight(d, w) ==
    CASE d = "activities" ->
           IF w # 1 THEN {}
           ELSE {Activity(t) : t \in RawActivityTimestamp}
      [] d = "sleep" ->
           IF w # 1 THEN {} ELSE {Night(c) : c \in RawCalendarDate}
      [] d = "health" ->
           IF w # 1 THEN {}
           ELSE {[calendarDate |-> c, metrics |-> m] :
                    c \in RawCalendarDate, m \in MetricLists}
      [] d = "hydration" ->
           IF w # 1 THEN {} ELSE {[timestampGMT |-> t] : t \in RawHydrationTimestamp}
      [] d = "uds" ->
           UNION {{[calendarDate |-> p[1], bodyBattery |-> p[2], aggs |-> p[3]] :
                      p \in RawCalendarDate \X BodyBatteryObjects(bw)
                               \X SeqsOfLen(Aggregators, w - 1 - bw)} :
                  bw \in {x \in {0, 1} : x <= w - 1}}

\* sequences of records of domain d of total size n
RECURSIVE RecordSeqs(_, _)
RecordSeqs(d, n) ==
    IF n = 0 THEN {<<>>}
    ELSE UNION {{Append(p[1], p[2]) : p \in RecordSeqs(d, n - w) \X RecordsOfWeight(d, w)} :
                    w \in 1..n}

\* json.load of the file, or the loader's first access to its shape, raises
Malformed == [kind |-> "malformed", recs |-> <<>>]
\* valid JSON that is an object where a list is expected
NotList == [kind |-> "notlist", recs |-> <<>>]
RecordsFile(s) == [kind |-> "records", recs |-> s]

\* files of domain d of size n >= 1 (a file without records has size 1)
FilesOfWeight(d, n) ==
    (IF n = 1
     THEN {Malformed, RecordsFile(<<>>)}
              \cup (IF d \in {"hydration", "uds"} THEN {NotList} ELSE {})
     ELSE {})
        \cup {RecordsFile(s) : s \in RecordSeqs(d, n)}

\* lists of k files of domain d of total size n
RECURSIVE FileLists(_, _, _)
FileLists(d, n, k) ==
    IF k = 0 THEN (IF n = 0 THEN {<<>>} ELSE {})
    ELSE UNION {{Append(p[1], p[2]) : p \in FileLists(d, n - w, k - 1) \X FilesOfWeight(d, w)} :
                    w \in 1..n}

\* DomainInputs[d][n]: what the archive can hold for domain d at size n
DomainInputs ==
    <<>> @@ [d \in Domains |->
                <<>> @@ [n \in 0..MaxSize |->
                            UNION {FileLists(d, n, k) : k \in 0..n}]]

\* The records of a well-formed export: every record is dated, a UDS record
\* holds a bodyBattery object, a stress aggregator or both.
ExportRecords(d) ==
    CASE d = "activities" ->
           {Activity(<<"ms", c>>) : c \in Days}
      [] d = "sleep" -> {Night(<<"iso", c>>) : c \in Days}
      [] d = "health" ->
           {[calendarDate |-> <<"iso", c>>, metrics |-> m] : c \in Days, m \in MetricLists}
      [] d = "hydration" -> {}
      [] d = "uds" ->
           {[calendarDate |-> <<"iso", p[1]>>, bodyBattery |-> p[2], aggs |-> p[3]] :
               p \in (Days \X BodyBatteryObjects(1) \X {<<>>})
                        \cup (Days \X {[has |-> FALSE, stats |-> {}]}
                                 \X {<<[type |-> "TOTAL", nullDuration |-> FALSE]>>,
                                      <<[type |-> "AWAKE", nullDuration |-> FALSE]>>})
                        \cup (Days \X {[has |-> TRUE, stats |-> {"HIGHEST", "LOWEST"}]}
                                 \X {<<[type |-> "TOTAL", nullDuration |-> FALSE]>>})}

\* a well-formed export holds at most one file per domain, a list of n
\* records; hydration logs, which the merger does not read, are left out
ExportInputs(d, n) ==
    IF n = 0 \/ ExportRecords(d) = {} THEN {<<>>}
    ELSE {<<RecordsFile(s \o <<>>)>> : s \in [1..n -> ExportRecords(d)]}

\* A daily export: a domain holds one record for each day of a set of days.
DaysInOrder(S) == SelectSeq([d \in 1..MaxDiary |-> d], LAMBDA d : d \in S)

DiaryFile(recs) == IF recs = <<>> THEN <<>> ELSE <<RecordsFile(recs)>>

DiaryActivities(S) ==
    DiaryFile([i \in 1..Cardinality(S) |-> Activity(<<"ms", DaysInOrder(S)[i]>>)])

DiarySleep(S) ==
    DiaryFile([i \in 1..Cardinality(S) |-> Night(<<"iso", DaysInOrder(S)[i]>>)])

\* the daily summaries: none; a bodyBattery object and the TOTAL and AWAKE
\* aggregators every day; a bodyBattery object on all but the last two
\* days; the TOTAL aggregator on the even days; a bodyBattery object every
\* day whose statistics hold no LOWEST; a bodyBattery object every day,
\* with statistics on the first day only
DiaryUds ==
    {<<>>,
     DiaryFile([d \in 1..MaxDiary |->
                  [calendarDate |-> <<"iso", d>>,
                   bodyBattery |-> [has |-> TRUE, stats |-> {"HIGHEST", "LOWEST"}],
                   aggs |-> <<[type |-> "TOTAL", nullDuration |-> FALSE],
                              [type |-> "AWAKE", nullDuration |-> FALSE]>>]]),
     DiaryFile([d \in 1..(MaxDiary - 2) |->
                  [calendarDate |-> <<"iso", d>>,
                   bodyBattery |-> [has |-> TRUE, stats |-> {"HIGHEST", "LOWEST"}],
                   aggs |-> <<>>]]),
     DiaryFile([i \in 1..(MaxDiary \div 2) |->
                  [calendarDate |-> <<"iso", 2 * i>>,
                   bodyBattery |-> [has |-> FALSE, stats |-> {}],
                   aggs |-> <<[type |-> "TOTAL", nullDuration |-> FALSE]>>]]),
     DiaryFile([d \in 1..MaxDiary |->
                  [calendarDate |-> <<"iso", d>>,
                   bodyBattery |-> [has |-> TRUE, stats |-> {"HIGHEST"}],
                   aggs |-> <<>>]]),
     DiaryFile([d \in 1..MaxDiary |->
                  [calendarDate |-> <<"iso", d>>,
                   bodyBattery |-> [has |-> TRUE,
                                    stats |-> IF d = 1 THEN {"HIGHEST", "LOWEST"} ELSE {}],
                   aggs |-> <<>>]])}

\* the health records: none; the HRV metric every day; a record every day,
\* with the HRV metric on the odd days only; the HRV and HR metrics on all
\* but the last two days
DiaryHealth ==
    {<<>>,
     DiaryFile([d \in 1..MaxDiary |-> [calendarDate |-> <<"iso", d>>, metrics |-> {"HRV"}]]),
     DiaryFile([d \in 1..MaxDiary |->
                  [calendarDate |-> <<"iso", d>>,
                   metrics |-> IF d % 2 = 1 THEN {"HRV"} ELSE {}]]),
     DiaryFile([d \in 1..(MaxDiary - 2) |->
                  [calendarDate |-> <<"iso", d>>, metrics |-> {"HRV", "HR"}]])}

Archive(a, s, h, y, u) ==
    [valid |-> TRUE,
     files |-> [activities |-> a, sleep |-> s, health |-> h, hydration |-> y, uds |-> u]]

\* a stream that is not a valid container
InvalidZip == [valid |-> FALSE, files |-> [d \in Domains |-> <<>>]]

NoFiles == [d \in Domains |-> <<>>]

\* the streams an instance is given in a row: no archive, an empty
\* archive, or an archive of one file of size 1
Uploads ==
    {InvalidZip, [valid |-> TRUE, files |-> NoFiles]}
        \cup UNION {{[valid |-> TRUE, files |-> [NoFiles EXCEPT ![d] = <<f>>]] :
                        f \in FilesOfWeight(d, 1)} : d \in Domains}

\* zip_ref.extractall(self.temp_dir) into the directory of the instance:
\* the k-th file of a domain has the same name in every export, a file of
\* the archive replaces the file of that name, the other files stay
extractall(dir, files) ==
    [d \in Domains |-> files[d] \o SubSeq(dir[d], Len(files[d]) + 1, Len(dir[d]))]

(***************************************************************************)
(* Conversions                                                             *)
(***************************************************************************)
\* Numbers are counted in units of 1e9: the number <<"num", v>> is v * 1e9,
\* and <<"ms", d>>, the epoch milliseconds of day d, is (DayZero + d) * 1e9.
DayZero == 1700
\* 1000000000000 and 1000000000, the two thresholds on max_value
MsThreshold == 1000
SecThreshold == 1
\* the largest instant of a pandas Timestamp (2262-04-11), in milliseconds
\* and in seconds since the epoch, in units of 1e9
MaxMillis == 9223372
MaxSeconds == 9

\* a timestamp: v * 1e9 units (ms, s or ns) after the epoch
Timestamp(unit, v) == [kind |-> "ts", unit |-> unit, v |-> v]
NotATime == [kind |-> "NaT"]

isna(v) == v[1] \in {"none", "absent"}

\* pd.to_numeric(value, errors='coerce') succeeds
is_numeric(v) == v[1] \in {"ms", "num"}

Number(v) == IF v[1] = "ms" THEN DayZero + v[2] ELSE v[2]

RECURSIVE MaxOf(_)
MaxOf(S) ==
    LET x == CHOOSE y \in S : TRUE
    IN  IF S = {x} THEN x
        ELSE LET m == MaxOf(S \ {x}) IN IF x >= m THEN x ELSE m

\* pd.to_datetime(number, unit=unit, errors='coerce'): an instant a
\* Timestamp cannot hold is coerced to NaT
from_epoch(v, unit) ==
    IF \/ unit = "ms" /\ v > MaxMillis
       \/ unit = "s" /\ v > MaxSeconds
    THEN NotATime
    ELSE Timestamp(unit, v)

\* pd.to_datetime(value, errors='coerce') of one value: a calendar string is
\* parsed, a number is read as nanoseconds, anything else is NaT
to_timestamp(v) ==
    CASE v[1] = "iso" -> Timestamp("ms", DayZero + v[2])
      [] is_numeric(v) -> Timestamp("ns", Number(v))
      [] OTHER -> NotATime

\* a call that raised
Raised == [kind |-> "raised"]
Column(values, fallback) == [kind |-> "column", values |-> values, fallback |-> fallback]

\* the except branch: pd.to_datetime(series, errors='coerce')
StringFallback(series) == Column([i \in 1..Len(series) |-> to_timestamp(series[i])], TRUE)

\* variant: the numeric value is read in the unit its own size suggests
ByMagnitude_PerValue(series) ==
    [i \in 1..Len(series) |->
        IF ~ is_numeric(series[i]) THEN NotATime
        ELSE IF Number(series[i]) > MsThreshold THEN from_epoch(Number(series[i]), "ms")
        ELSE IF Number(series[i]) > SecThreshold THEN from_epoch(Number(series[i]), "s")
        ELSE to_timestamp(series[i])]

\* variant: a value that is no number is parsed as a calendar string
ByMagnitude_ParsesStrings(series) ==
    LET max_value == MaxOf({Number(series[i]) : i \in {j \in 1..Len(series) : is_numeric(series[j])}})
    IN  [i \in 1..Len(series) |->
            IF ~ is_numeric(series[i]) \/ max_value <= SecThreshold THEN to_timestamp(series[i])
            ELSE from_epoch(Number(series[i]), IF max_value > MsThreshold THEN "ms" ELSE "s")]

\* the try block after the all-null test, for a column with a number in it
ByMagnitude(series) ==
    LET max_value == MaxOf({Number(series[i]) : i \in {j \in 1..Len(series) : is_numeric(series[j])}})
    IN  IF max_value > MsThreshold
        THEN [i \in 1..Len(series) |->
                 IF is_numeric(series[i]) THEN from_epoch(Number(series[i]), "ms")
                 ELSE NotATime]
        ELSE IF max_value > SecThreshold
        THEN [i \in 1..Len(series) |->
                 IF is_numeric(series[i]) THEN from_epoch(Number(series[i]), "s")
                 ELSE NotATime]
        ELSE [i \in 1..Len(series) |-> to_timestamp(series[i])]

\* variant: no except branch
safe_parse_timestamp_NoExcept(series) ==
    IF \A i \in 1..Len(series) : isna(series[i])
    THEN Column([i \in 1..Len(series) |-> to_timestamp(series[i])], FALSE)
    ELSE IF \E i \in 1..Len(series) : series[i][1] = "obj"
    THEN Raised
    ELSE IF \E i \in 1..Len(series) : is_numeric(series[i])
    THEN Column(ByMagnitude(series), FALSE)
    ELSE Column([i \in 1..Len(series) |-> to_timestamp(series[i])], FALSE)

\* safe_parse_timestamp(series): a value <<"obj", 0>> (a JSON object or
\* list) makes the numeric classification raise, which the except branch
\* catches
safe_parse_timestamp(series) ==
    IF \A i \in 1..Len(series) : isna(series[i])
    THEN Column([i \in 1..Len(series) |-> to_timestamp(series[i])], FALSE)
    ELSE IF \E i \in 1..Len(series) : series[i][1] = "obj"
    THEN StringFallback(series)
    ELSE IF \E i \in 1..Len(series) : is_numeric(series[i])
    THEN Column(ByMagnitude(series), FALSE)
    ELSE Column([i \in 1..Len(series) |-> to_timestamp(series[i])], FALSE)

\* .dt.date: the calendar date of a timestamp; FarDay is a date outside the
\* modelled calendar
FarDay == LastDay + 1
date_of(t) ==
    IF t.kind = "NaT" THEN NaT
    ELSE IF t.unit = "ms" /\ t.v > DayZero /\ t.v <= DayZero + LastDay THEN t.v - DayZero
    ELSE FarDay

\* pd.to_datetime(value, errors='coerce') of a calendarDate, as a date
to_datetime(v) == date_of(to_timestamp(v))

\* the dates of the timestamps safe_parse_timestamp gives for a column
timestamp_dates(series) ==
    [i \in 1..Len(series) |-> date_of(safe_parse_timestamp(series).values[i])]

\* df.dropna(subset=[date column])
dropna(rows) == SelectSeq(rows, LAMBDA r : r.date # NaT)

RECURSIVE Concat(_)
Concat(ss) == IF ss = <<>> THEN <<>> ELSE Head(ss) \o Concat(Tail(ss))

(***************************************************************************)
(* The loaders, as functions of the files found for their pattern.  Each   *)
(* gives [df, raised]: the value returned and whether the except branch    *)
(* ran.                                                                    *)
(***************************************************************************)
Returned(df) == [df |-> df, raised |-> FALSE]
Caught == [df |-> None, raised |-> TRUE]

\* 'key' in df.columns: some record of the batch has the key
InColumns(recs, key) == \E i \in 1..Len(recs) : recs[i][key][1] # "absent"

\* exact fractions <<numerator, denominator>> in lowest terms
RECURSIVE gcd(_, _)
gcd(a, b) == IF b = 0 THEN a ELSE gcd(b, a % b)
Ratio(n, d) == LET g == gcd(n, d) IN <<n \div g, d \div g>>
Over(q, k) == Ratio(q[1], q[2] * k)
Zero == Ratio(0, 1)

\* .fillna(0) of a cell of a column of numbers
fillna(v) == IF v[1] = "val" THEN v[2] ELSE 0

\* variant: startTimeGmt is looked for first
timestamp_col_GmtFirst(recs) ==
    IF InColumns(recs, "startTimeGmt") THEN "startTimeGmt"
    ELSE IF InColumns(recs, "startTimeLocal") THEN "startTimeLocal"
    ELSE IF InColumns(recs, "beginTimestamp") THEN "beginTimestamp"
    ELSE "none"

\* the first of the three timestamp columns the table has
timestamp_col(recs) ==
    IF InColumns(recs, "startTimeLocal") THEN "startTimeLocal"
    ELSE IF InColumns(recs, "startTimeGmt") THEN "startTimeGmt"
    ELSE IF InColumns(recs, "beginTimestamp") THEN "beginTimestamp"
    ELSE "none"

\* variant: a row without a value in elapsedDuration takes its duration
duration_minutes_PerRow(recs, r) ==
    IF r.elapsedDuration[1] = "val"
    THEN Over(Over(Ratio(fillna(r.elapsedDuration), 1), 1000), 60)
    ELSE Over(Over(Ratio(fillna(r.duration), 1), 1000), 60)

\* df['duration_minutes'] of record r
duration_minutes(recs, r) ==
    IF InColumns(recs, "elapsedDuration")
    THEN Over(Over(Ratio(fillna(r.elapsedDuration), 1), 1000), 60)
    ELSE IF InColumns(recs, "duration")
    THEN Over(Over(Ratio(fillna(r.duration), 1), 1000), 60)
    ELSE Zero

\* df['distance_km'] of record r
distance_km(recs, r) ==
    IF InColumns(recs, "distance")
    THEN Over(Over(Ratio(fillna(r.distance), 1), 100), 1000)
    ELSE Zero

\* variant: a null bmrCalories is filled with the nominal calories
activeCalories_FillsWithCalories(recs, r) ==
    IF InColumns(recs, "bmrCalories") /\ r.bmrCalories[1] = "val" THEN fillna(r.bmrCalories)
    ELSE fillna(r.calories)

\* df['activeCalories'] of record r
activeCalories(recs, r) ==
    IF InColumns(recs, "bmrCalories") THEN fillna(r.bmrCalories)
    ELSE IF InColumns(recs, "calories") THEN fillna(r.calories)
    ELSE 0

\* df['avgHr'] of record r
avgHr(recs, r) == IF InColumns(recs, "avgHr") THEN fillna(r.avgHr) ELSE 0

LoadActivities(files) ==
    IF files = <<>> THEN Returned(None)
    ELSE IF files[1].kind # "records" THEN Caught
    ELSE IF files[1].recs = <<>> THEN Returned(None)
    ELSE IF timestamp_col(files[1].recs) = "none" THEN Returned(None)
    ELSE LET recs == files[1].recs
             ts == timestamp_dates([i \in 1..Len(recs) |-> recs[i][timestamp_col(recs)]])
             rows == dropna([i \in 1..Len(recs) |->
                               [idx |-> i, date |-> ts[i], activityId |-> recs[i].activityId,
                                duration_minutes |-> duration_minutes(recs, recs[i]),
                                distance_km |-> distance_km(recs, recs[i]),
                                activeCalories |-> activeCalories(recs, recs[i]),
                                avgHr |-> avgHr(recs, recs[i]),
                                averageHR |-> IF recs[i].averageHR[1] = "val"
                                              THEN recs[i].averageHR[2] ELSE NullVal]])
         IN  IF rows = <<>> THEN Returned(None)
             ELSE Returned(DataFrame(rows, IF InColumns(recs, "averageHR")
                                           THEN {"averageHR"} ELSE {}))

\* the records of all files, in file order (all_sleep, all_health)
AllRecords(files) == Concat([i \in 1..Len(files) |-> files[i].recs])

Plus(p, q) == Ratio(p[1] * q[2] + q[1] * p[2], p[2] * q[2])

\* df[column].fillna(0) / 3600 of record r, 0 without the column
Hours(recs, r, key) ==
    IF InColumns(recs, key) THEN Over(Ratio(fillna(r[key]), 1), 3600) ELSE Zero

\* variant: the time awake is counted as sleep
totalSleepHours_WithAwake(recs, r) ==
    Plus(Plus(Plus(Hours(recs, r, "deepSleepSeconds"), Hours(recs, r, "lightSleepSeconds")),
              Hours(recs, r, "remSleepSeconds")),
         Hours(recs, r, "awakeSleepSeconds"))

\* df['totalSleepHours'] of record r
totalSleepHours(recs, r) ==
    Plus(Plus(Hours(recs, r, "deepSleepSeconds"), Hours(recs, r, "lightSleepSeconds")),
         Hours(recs, r, "remSleepSeconds"))

ScoreColumns ==
    {"overallScore", "qualityScore", "recoveryScore", "durationScore", "deepScore", "remScore"}

\* variant: the score columns are made for every batch
score_columns_Always(recs) == ScoreColumns

\* the score columns of the table: made when the batch has 'sleepScores'
score_columns(recs) == IF InColumns(recs, "sleepScores") THEN ScoreColumns ELSE {}

\* x.get(c) if isinstance(x, dict) else None
score(x, c) == IF x[1] = "dict" /\ c \in DOMAIN x[2] THEN x[2][c] ELSE NullVal

\* the rows of the sleep table
SleepRows(recs) ==
    dropna([i \in 1..Len(recs) |->
               [idx |-> i, date |-> to_datetime(recs[i].calendarDate),
                deepSleepHours |-> Hours(recs, recs[i], "deepSleepSeconds"),
                awakeHours |-> Hours(recs, recs[i], "awakeSleepSeconds"),
                totalSleepHours |-> totalSleepHours(recs, recs[i]),
                scores |-> [c \in score_columns(recs) |-> score(recs[i].sleepScores, c)]]])

\* variant: the loader reads its first file before it tests for no files
LoadSleep_NoFilesRaises(files) ==
    IF files = <<>> THEN Caught
    ELSE IF \E i \in 1..Len(files) : files[i].kind # "records" THEN Caught
    ELSE IF AllRecords(files) = <<>> THEN Returned(None)
    ELSE LET recs == AllRecords(files)
             rows == SleepRows(recs)
         IN  IF rows = <<>> THEN Returned(None)
             ELSE Returned(DataFrame(rows, score_columns(recs)))

LoadSleep(files) ==
    IF files = <<>> THEN Returned(None)
    ELSE IF \E i \in 1..Len(files) : files[i].kind # "records" THEN Caught
    ELSE IF AllRecords(files) = <<>> THEN Returned(None)
    ELSE LET recs == AllRecords(files)
             rows == SleepRows(recs)
         IN  IF rows = <<>> THEN Returned(None)
             ELSE Returned(DataFrame(rows, score_columns(recs)))

\* the five columns of a metric type
MetricFields == {"_value", "_baseline_upper", "_baseline_lower", "_percentage", "_status"}

\* variant: the columns of the metric types of the dated records only
health_columns_DatedOnly(recs) ==
    {m \o f : m \in UNION {recs[i].metrics :
                               i \in {j \in 1..Len(recs) : to_datetime(recs[j].calendarDate) # NaT}},
              f \in MetricFields}

\* the columns of pd.DataFrame(metrics_expanded): the keys of all the
\* metrics_dict of the batch
health_columns(recs) ==
    {m \o f : m \in UNION {recs[i].metrics : i \in 1..Len(recs)}, f \in MetricFields}

LoadHealth(files) ==
    IF files = <<>> THEN Returned(None)
    ELSE IF \E i \in 1..Len(files) : files[i].kind # "records" THEN Caught
    ELSE IF AllRecords(files) = <<>> THEN Returned(None)
    ELSE LET recs == AllRecords(files)
             cols == health_columns(recs)
             rows == dropna([i \in 1..Len(recs) |->
                               [idx |-> i, date |-> to_datetime(recs[i].calendarDate),
                                metrics |-> recs[i].metrics]])
         IN  IF rows = <<>> THEN Returned(None) ELSE Returned(DataFrame(rows, cols))

\* variant: the rows without a resolved timestamp are dropped
LoadHydration_DropsUndated(files) ==
    IF files = <<>> THEN Returned(None)
    ELSE IF \E i \in 1..Len(files) : files[i].kind = "malformed" THEN Caught
    ELSE IF AllRecords(files) = <<>> THEN Returned(None)
    ELSE LET recs == AllRecords(files)
             raw == [i \in 1..Len(recs) |-> recs[i].timestampGMT]
             rows == dropna([i \in 1..Len(recs) |->
                                [idx |-> i, date |-> timestamp_dates(raw)[i]]])
         IN  IF rows = <<>> THEN Returned(None)
             ELSE Returned(DataFrame(rows, {"timestamp", "date", "month", "week"}))

LoadHydration(files) ==
    IF files = <<>> THEN Returned(None)
    ELSE IF \E i \in 1..Len(files) : files[i].kind = "malformed" THEN Caught
    ELSE IF AllRecords(files) = <<>> THEN Returned(None)
    ELSE LET recs == AllRecords(files)
             raw == [i \in 1..Len(recs) |-> recs[i].timestampGMT]
         IN  IF \E i \in 1..Len(recs) : raw[i][1] # "absent"
             THEN Returned(DataFrame(
                      [i \in 1..Len(recs) |->
                          [idx |-> i, date |-> timestamp_dates(raw)[i]]],
                      {"timestamp", "date", "month", "week"}))
             ELSE Returned(DataFrame([i \in 1..Len(recs) |-> [idx |-> i, date |-> NaT]], {}))

\* variant: a day without a stress object gets no Body-Battery row
body_battery_records_NeedsStress(recs) ==
    LET kept == SelectSeq(recs, LAMBDA r : r.bodyBattery.has /\ r.aggs # <<>>)
    IN  [i \in 1..Len(kept) |->
            [idx |-> i, date |-> to_datetime(kept[i].calendarDate),
             stats |-> kept[i].bodyBattery.stats]]

\* body_battery_records and stress_records of the batch
body_battery_records(recs) ==
    LET kept == SelectSeq(recs, LAMBDA r : r.bodyBattery.has)
    IN  [i \in 1..Len(kept) |->
            [idx |-> i, date |-> to_datetime(kept[i].calendarDate),
             stats |-> kept[i].bodyBattery.stats]]

stress_records(recs) ==
    LET flat == Concat([i \in 1..Len(recs) |->
                          [j \in 1..Len(recs[i].aggs) |->
                              [date |-> to_datetime(recs[i].calendarDate),
                               type |-> recs[i].aggs[j].type]]])
    IN  [i \in 1..Len(flat) |-> [idx |-> i, date |-> flat[i].date, type |-> flat[i].type]]

StatColumn(s) == IF s = "HIGHEST" THEN "highest_value" ELSE "lowest_value"

\* variant: an exception in the stress part leaves the Body-Battery table
\* built so far
LoadBodyBatteryAndStress_KeepsBuilt(files) ==
    IF files = <<>> THEN [bb |-> None, stress |-> None, raised |-> FALSE]
    ELSE IF \E i \in 1..Len(files) : files[i].kind = "malformed"
         THEN [bb |-> None, stress |-> None, raised |-> TRUE]
    ELSE IF AllRecords(files) = <<>> THEN [bb |-> None, stress |-> None, raised |-> FALSE]
    ELSE LET recs == AllRecords(files)
             bbr == body_battery_records(recs)
             sr == stress_records(recs)
             failed == \E i \in 1..Len(recs) : \E j \in 1..Len(recs[i].aggs) :
                           recs[i].aggs[j].nullDuration
         IN  [bb |-> IF bbr = <<>> THEN None
                     ELSE DataFrame(dropna(bbr),
                             {StatColumn(s) : s \in UNION {bbr[i].stats : i \in 1..Len(bbr)}}),
              stress |-> IF sr = <<>> \/ failed THEN None ELSE DataFrame(dropna(sr), {}),
              raised |-> failed]

\* load_body_battery_and_stress gives [bb, stress, raised]
LoadBodyBatteryAndStress(files) ==
    IF files = <<>> THEN [bb |-> None, stress |-> None, raised |-> FALSE]
    ELSE IF \E i \in 1..Len(files) : files[i].kind = "malformed"
         THEN [bb |-> None, stress |-> None, raised |-> TRUE]
    ELSE IF AllRecords(files) = <<>> THEN [bb |-> None, stress |-> None, raised |-> FALSE]
    ELSE LET recs == AllRecords(files)
             bbr == body_battery_records(recs)
             sr == stress_records(recs)
         IN  IF \E i \in 1..Len(recs) : \E j \in 1..Len(recs[i].aggs) :
                    recs[i].aggs[j].nullDuration
             THEN [bb |-> None, stress |-> None, raised |-> TRUE]
             ELSE [bb |-> IF bbr = <<>> THEN None
                          ELSE DataFrame(dropna(bbr),
                                  {StatColumn(s) : s \in UNION {bbr[i].stats : i \in 1..Len(bbr)}}),
                   stress |-> IF sr = <<>> THEN None ELSE DataFrame(dropna(sr), {}),
                   raised |-> FALSE]

(***************************************************************************)
(* The merge step of create_correlation_analysis.  A row of the merged     *)
(* table is [date, num_activities, sleep, body_battery, stress, health]:   *)
(* num_activities stands for the columns of activities_daily, the other    *)
(* fields for the columns a domain contributes and hold the idx of the     *)
(* domain row they come from; NullVal is a null cell.                      *)
(***************************************************************************)
MinMergedRows == 5

RowsOn(rows, d) == SelectSeq(rows, LAMBDA r : r.date = d)

BlankRow(d) ==
    [date |-> d, num_activities |-> NullVal, sleep |-> NullVal, body_battery |-> NullVal,
     stress |-> NullVal, health |-> NullVal]

\* activities_df.groupby('date').agg(agg_dict).reset_index(): one row per
\* date, in date order; 'activityId': 'count' counts the non-null ids
activities_daily(a) ==
    LET days == SelectSeq([d \in 1..LastDay |-> d], LAMBDA d : RowsOn(a.rows, d) # <<>>)
    IN  [i \in 1..Len(days) |->
            [BlankRow(days[i]) EXCEPT
                !.num_activities =
                    Len(SelectSeq(RowsOn(a.rows, days[i]), LAMBDA r : r.activityId))]]

\* the sum of the fractions, and of the numbers, of a sequence
RECURSIVE SumRatios(_)
SumRatios(qs) == IF qs = <<>> THEN Zero ELSE Plus(Head(qs), SumRatios(Tail(qs)))
RECURSIVE SumOf(_)
SumOf(ns) == IF ns = <<>> THEN 0 ELSE Head(ns) + SumOf(Tail(ns))

\* 'averageHR': 'mean' of the rows of a date: the mean of the values that
\* are not null, null without one
mean(rows) ==
    LET vals == SelectSeq([i \in 1..Len(rows) |-> rows[i].averageHR], LAMBDA v : v # NullVal)
    IN  IF vals = <<>> THEN NullVal ELSE Ratio(SumOf(vals), Len(vals))

\* col_names: the columns of activities_daily
daily_columns(a) ==
    {"date", "num_activities", "distance", "calories", "duration"}
        \cup (IF "averageHR" \in a.cols THEN {"avg_hr"} ELSE {})

\* activities_df.groupby('date').agg(agg_dict).reset_index() with all its
\* columns: one row per date, in date order; avg_hr is null in a table
\* without that column
groupby_agg(a) ==
    LET days == SelectSeq([d \in 1..(LastDay + 1) |-> d], LAMBDA d : RowsOn(a.rows, d) # <<>>)
    IN  [cols |-> daily_columns(a),
         rows |-> [i \in 1..Len(days) |->
                     LET on == RowsOn(a.rows, days[i])
                     IN  [date |-> days[i],
                          num_activities |-> Len(SelectSeq(on, LAMBDA r : r.activityId)),
                          distance |-> SumRatios([k \in 1..Len(on) |-> on[k].distance_km]),
                          calories |-> SumOf([k \in 1..Len(on) |-> on[k].activeCalories]),
                          duration |-> SumRatios([k \in 1..Len(on) |-> on[k].duration_minutes]),
                          avg_hr |-> IF "avg_hr" \in daily_columns(a) THEN mean(on)
                                     ELSE NullVal]]]

\* the rows of one key of pd.merge: every left row with every right row
Cross(ls, rs, f) ==
    [k \in 1..(Len(ls) * Len(rs)) |->
        [ls[((k - 1) \div Len(rs)) + 1] EXCEPT ![f] = rs[((k - 1) % Len(rs)) + 1].idx]]

MergeOn(left, right, f, d) ==
    LET ls == RowsOn(left, d)
        rs == RowsOn(right, d)
    IN  IF rs = <<>> THEN ls
        ELSE Cross(IF ls = <<>> THEN <<BlankRow(d)>> ELSE ls, rs, f)

\* variant: how='left', the keys of the left side only
merge_Left(left, right, f) ==
    Concat([d \in 1..LastDay |->
               IF RowsOn(left, d) = <<>> THEN <<>> ELSE MergeOn(left, right, f, d)])

\* pd.merge(left, right, on='date', how='outer'): the keys of both sides in
\* date order; the columns of right go to field f
merge(left, right, f) == Concat([d \in 1..LastDay |-> MergeOn(left, right, f, d)])

\* stress_df[stress_df['type'] == 'TOTAL']
stress_total(t) == SelectSeq(t.rows, LAMBDA r : r.type = "TOTAL")

NonEmpty(df) == df.kind = "df" /\ Len(df.rows) > 0

\* body_battery_df[['calendarDate', 'chargedValue', 'drainedValue',
\* 'highest_value', 'lowest_value']] raises KeyError
MissingColumns(b) == ~ ({"highest_value", "lowest_value"} \subseteq b.cols)

\* the columns of the merged table: those of activities_daily and
\* sleep_daily, and those of each joined table
MergedColumns(b, t, h) ==
    {"date", "num_activities", "distance", "calories", "duration",
     "totalSleepHours", "deepSleepHours", "remSleepHours", "awakeCount"}
        \cup (IF NonEmpty(b)
              THEN {"chargedValue", "drainedValue", "highest_value", "lowest_value"}
              ELSE {})
        \cup (IF NonEmpty(t) THEN {"averageStressLevel", "restDuration"} ELSE {})
        \cup (IF NonEmpty(h) THEN {"HRV_value", "HR_value"} \cap h.cols ELSE {})

\* variant: the table needs more than MinMergedRows rows
Consolidated_OffByOne(a, s, b, t, h) ==
    IF NonEmpty(b) /\ MissingColumns(b) THEN [merged |-> None, outcome |-> "error"]
    ELSE LET m1 == merge(activities_daily(a), s.rows, "sleep")
             m2 == IF NonEmpty(b) THEN merge(m1, b.rows, "body_battery") ELSE m1
             m3 == IF NonEmpty(t) THEN merge(m2, stress_total(t), "stress") ELSE m2
             m4 == IF NonEmpty(h) THEN merge(m3, h.rows, "health") ELSE m3
         IN  [merged |-> DataFrame(m4 \o <<>>, MergedColumns(b, t, h)),
              outcome |-> IF Len(m4) <= MinMergedRows THEN "too_few" ELSE "proceed"]

\* variant: a Body-Battery table without the statistics columns is left
\* out of the merge
Consolidated_SkipsBodyBattery(a, s, b, t, h) ==
    LET m1 == merge(activities_daily(a), s.rows, "sleep")
        m2 == IF NonEmpty(b) /\ ~ MissingColumns(b)
              THEN merge(m1, b.rows, "body_battery") ELSE m1
        m3 == IF NonEmpty(t) THEN merge(m2, stress_total(t), "stress") ELSE m2
        m4 == IF NonEmpty(h) THEN merge(m3, h.rows, "health") ELSE m3
    IN  [merged |-> DataFrame(m4 \o <<>>, MergedColumns(b, t, h)),
         outcome |-> IF Len(m4) < MinMergedRows THEN "too_few" ELSE "proceed"]

\* the try block of section 1 (PREPARAR DADOS CONSOLIDADOS)
Consolidated(a, s, b, t, h) ==
    IF NonEmpty(b) /\ MissingColumns(b) THEN [merged |-> None, outcome |-> "error"]
    ELSE LET m1 == merge(activities_daily(a), s.rows, "sleep")
             m2 == IF NonEmpty(b) THEN merge(m1, b.rows, "body_battery") ELSE m1
             m3 == IF NonEmpty(t) THEN merge(m2, stress_total(t), "stress") ELSE m2
             m4 == IF NonEmpty(h) THEN merge(m3, h.rows, "health") ELSE m3
         IN  [merged |-> DataFrame(m4 \o <<>>, MergedColumns(b, t, h)),
              outcome |-> IF Len(m4) < MinMergedRows THEN "too_few" ELSE "proceed"]

\* variant: the first guard also tests health_df
CorrelationData_NeedsHealth(a, s, b, t, h) ==
    IF a.kind # "df" \/ s.kind # "df" \/ h.kind # "df"
    THEN [merged |-> None, outcome |-> "insufficient"]
    ELSE IF Len(a.rows) = 0 \/ Len(s.rows) = 0
         THEN [merged |-> None, outcome |-> "insufficient"]
    ELSE Consolidated(a, s, b, t, h)

\* Section 1 of create_correlation_analysis gives [merged, outcome]:
\* outcome "insufficient" is the return of the two guards, "error" the
\* except branch, "too_few" the return on fewer than MinMergedRows rows,
\* "proceed" the fall through to the views
CorrelationData(a, s, b, t, h) ==
    IF a.kind # "df" \/ s.kind # "df" THEN [merged |-> None, outcome |-> "insufficient"]
    ELSE IF Len(a.rows) = 0 \/ Len(s.rows) = 0
         THEN [merged |-> None, outcome |-> "insufficient"]
    ELSE Consolidated(a, s, b, t, h)

(***************************************************************************)
(* Section 6 of create_correlation_analysis (MATRIZ DE CORRELACAO).  The   *)
(* columns of Activities and Sleep, chargedValue, drainedValue and         *)
(* averageStressLevel hold a number in every row of their table; HRV_value *)
(* and HR_value are null in a health row whose record lacks the metric.    *)
(***************************************************************************)
MinCorrRows == 3
MinCorrCols == 3

\* the curated candidates, in the order of the tests on merged.columns
corr_candidates ==
    <<"duration", "calories", "distance", "totalSleepHours", "deepSleepHours",
      "chargedValue", "drainedValue", "averageStressLevel", "HRV_value", "HR_value">>

\* the field of a merged row that stands for the columns of one domain
ColumnField(c) ==
    CASE c \in {"duration", "calories", "distance"} -> "num_activities"
      [] c \in {"totalSleepHours", "deepSleepHours"} -> "sleep"
      [] c \in {"chargedValue", "drainedValue"} -> "body_battery"
      [] c = "averageStressLevel" -> "stress"
      [] c \in {"HRV_value", "HR_value"} -> "health"

MetricOf(c) == IF c = "HRV_value" THEN "HRV" ELSE "HR"

RowAt(rows, idx) == CHOOSE r \in {rows[i] : i \in 1..Len(rows)} : r.idx = idx

\* the cell of column c in merged row r is null
IsNull(r, c, h) ==
    \/ r[ColumnField(c)] = NullVal
    \/ /\ ColumnField(c) = "health"
       /\ MetricOf(c) \notin RowAt(h.rows, r.health).metrics

NoMatrix == [cols |-> <<>>, data |-> <<>>, outcome |-> "none"]

\* variant: the rows with a null are not dropped (corr() skips nulls pairwise)
CorrelationMatrix_KeepsNulls(m, h) ==
    LET cols == SelectSeq(corr_candidates, LAMBDA c : c \in m.cols)
    IN  [cols |-> cols,
         data |-> m.rows,
         outcome |-> IF Len(m.rows) >= MinCorrRows /\ Len(cols) >= MinCorrCols
                     THEN "matrix" ELSE "insufficient"]

\* corr_cols, corr_data = merged[corr_cols].dropna() and the test on their
\* sizes: outcome "matrix" is corr_data.corr(), "insufficient" the warning
CorrelationMatrix(m, h) ==
    LET cols == SelectSeq(corr_candidates, LAMBDA c : c \in m.cols)
        data == SelectSeq(m.rows, LAMBDA r : \A i \in 1..Len(cols) : ~ IsNull(r, cols[i], h))
    IN  [cols |-> cols,
         data |-> data,
         outcome |-> IF Len(data) >= MinCorrRows /\ Len(cols) >= MinCorrCols
                     THEN "matrix" ELSE "insufficient"]

(***************************************************************************)
(* corr_data.corr(): Pearson's coefficient of every pair of columns.  A    *)
(* coefficient is kept exact as [num, den2], standing for num / sqrt(den2);*)
(* pandas gives NaN when the divisor is 0.                                 *)
(***************************************************************************)
NaN == [kind |-> "nan"]

RECURSIVE Sum(_)
Sum(x) == IF x = <<>> THEN 0 ELSE Head(x) + Sum(Tail(x))

ColumnOf(table, j) == [i \in 1..Len(table) |-> table[i][j]]

\* n times the sum of the products of the deviations from the means
Codeviation(x, y) ==
    Len(x) * Sum([i \in 1..Len(x) |-> x[i] * y[i]]) - Sum(x) * Sum(y)

pearson(x, y) ==
    LET den2 == Codeviation(x, x) * Codeviation(y, y)
    IN  IF den2 = 0 THEN NaN
        ELSE [kind |-> "r", num |-> Codeviation(x, y), den2 |-> den2]

corr(table) ==
    LET n == Len(table[1])
    IN  [i \in 1..n |-> [j \in 1..n |-> pearson(ColumnOf(table, i), ColumnOf(table, j))]]

\* corr_pairs: one entry for every i < j, in the order of the two loops
corr_pairs(matrix) ==
    Concat([i \in 1..Len(matrix) |->
               [k \in 1..(Len(matrix) - i) |->
                   [var1 |-> i, var2 |-> i + k, corr |-> matrix[i][i + k]]]])

\* abs_corr of a is at least abs_corr of b, for two coefficients
AbsAtLeast(a, b) == a.num * a.num * b.den2 >= b.num * b.num * a.den2

\* the arrangements p of the entries: entry p[k] is at place k
Arrangements(pairs) ==
    {p \in [1..Len(pairs) -> 1..Len(pairs)] : \A k, l \in 1..Len(pairs) : p[k] = p[l] => k = l}

\* variant: ascending=True
sort_values_Ascending(pairs) ==
    {[k \in 1..Len(pairs) |-> pairs[p[k]]] : p \in
        {q \in Arrangements(pairs) :
            \A k, l \in 1..Len(pairs) :
                k < l => /\ pairs[q[k]].corr = NaN => pairs[q[l]].corr = NaN
                         /\ (pairs[q[k]].corr # NaN /\ pairs[q[l]].corr # NaN) =>
                               AbsAtLeast(pairs[q[l]].corr, pairs[q[k]].corr)}}

\* corr_pairs_df.sort_values('abs_corr', ascending=False): the sort is not
\* stable, so every arrangement in descending order with the NaN entries
\* last is a possible result
sort_values(pairs) ==
    {[k \in 1..Len(pairs) |-> pairs[p[k]]] : p \in
        {q \in Arrangements(pairs) :
            \A k, l \in 1..Len(pairs) :
                k < l => /\ pairs[q[k]].corr = NaN => pairs[q[l]].corr = NaN
                         /\ (pairs[q[k]].corr # NaN /\ pairs[q[l]].corr # NaN) =>
                               AbsAtLeast(pairs[q[k]].corr, pairs[q[l]].corr)}}

(***************************************************************************)
(* The state                                                               *)
(***************************************************************************)
VARIABLES
    zip_file,         \* the uploaded stream: [valid, files]
    temp_dir,         \* the extraction directory: domain pattern -> files found
    pc,               \* where main() is
    pending,          \* the loaders load_all_data has not run yet
    any_order,        \* TRUE: the loaders are called in any order
    extracted,        \* number of calls of extract_zip
    returned,         \* loader -> the value its call returned ("tables" for uds)
    reported,         \* the loaders whose except branch reported an error
    activities_df, sleep_df, health_df, hydration_df,
    body_battery_df, stress_df,
    merged,           \* the merged table of create_correlation_analysis
    outcome,          \* how section 1 of create_correlation_analysis ended
    corr_cols,        \* section 6: the selected columns
    corr_data,        \* section 6: the merged rows without a null in them
    corr_outcome,     \* section 6: "none", "matrix" or "insufficient"
    column,           \* a column given to safe_parse_timestamp
    parsed,           \* what safe_parse_timestamp returned for it
    frame,            \* a table of numbers given to DataFrame.corr
    corr_matrix,      \* the matrix DataFrame.corr returned for it
    found,            \* the files find_files gave a loader called by itself
    loaded,           \* what that loader returned
    daily,            \* activities_daily of the table in loaded
    corr_pairs_df     \* the ranked pairs of corr_matrix

vars == <<zip_file, temp_dir, pc, pending, any_order, extracted, returned, reported,
          activities_df, sleep_df, health_df, hydration_df, body_battery_df, stress_df,
          merged, outcome, corr_cols, corr_data, corr_outcome,
          column, parsed, frame, corr_matrix, found, loaded, daily, corr_pairs_df>>

\* the variables of the specifications of single functions
calls == <<column, parsed, frame, corr_matrix, found, loaded, daily, corr_pairs_df>>

\* no single function is being called
NoCalls ==
    /\ column = <<>> /\ parsed = <<>>
    /\ frame = <<>> /\ corr_matrix = None
    /\ found = <<>> /\ loaded = <<>>
    /\ daily = <<>> /\ corr_pairs_df = None

NotRun == [kind |-> "notrun"]

\* the order of the calls in load_all_data
LoaderOrder == <<"activities", "sleep", "health", "hydration", "uds">>

Position(d) == CHOOSE i \in 1..Len(LoaderOrder) : LoaderOrder[i] = d

\* GarminDataAnalyzer.__init__
Constructed ==
    /\ temp_dir = NoFiles
    /\ pc = "extract_zip"
    /\ pending = Domains
    /\ extracted = 0
    /\ returned = [d \in Domains |-> NotRun]
    /\ reported = {}
    /\ activities_df = None
    /\ sleep_df = None
    /\ health_df = None
    /\ hydration_df = None
    /\ body_battery_df = Unset
    /\ stress_df = Unset
    /\ merged = None
    /\ outcome = "none"
    /\ corr_cols = <<>>
    /\ corr_data = <<>>
    /\ corr_outcome = "none"
    /\ NoCalls

\* every archive of size at most MaxSize, and a stream that is no archive
Init ==
    /\ \/ zip_file = InvalidZip
       \/ \E n1 \in 0..MaxSize : \E a \in DomainInputs["activities"][n1] :
          \E n2 \in 0..(MaxSize - n1) : \E s \in DomainInputs["sleep"][n2] :
          \E n3 \in 0..(MaxSize - n1 - n2) : \E h \in DomainInputs["health"][n3] :
          \E n4 \in 0..(MaxSize - n1 - n2 - n3) : \E y \in DomainInputs["hydration"][n4] :
          \E n5 \in 0..(MaxSize - n1 - n2 - n3 - n4) : \E u \in DomainInputs["uds"][n5] :
              zip_file = Archive(a, s, h, y, u)
    /\ any_order = FALSE
    /\ Constructed

\* the same session, the loaders called in any order
InitAnyOrder ==
    /\ \/ zip_file = InvalidZip
       \/ \E n1 \in 0..MaxSize : \E a \in DomainInputs["activities"][n1] :
          \E n2 \in 0..(MaxSize - n1) : \E s \in DomainInputs["sleep"][n2] :
          \E n3 \in 0..(MaxSize - n1 - n2) : \E h \in DomainInputs["health"][n3] :
          \E n4 \in 0..(MaxSize - n1 - n2 - n3) : \E y \in DomainInputs["hydration"][n4] :
          \E n5 \in 0..(MaxSize - n1 - n2 - n3 - n4) : \E u \in DomainInputs["uds"][n5] :
              zip_file = Archive(a, s, h, y, u)
    /\ any_order = TRUE
    /\ Constructed

\* a session on a well-formed export of at most MaxExport records
InitExport ==
    /\ \E n1 \in 0..MaxExport : \E a \in ExportInputs("activities", n1) :
       \E n2 \in 0..(MaxExport - n1) : \E s \in ExportInputs("sleep", n2) :
       \E n3 \in 0..(MaxExport - n1 - n2) : \E h \in ExportInputs("health", n3) :
       \E n5 \in 0..(MaxExport - n1 - n2 - n3) : \E u \in ExportInputs("uds", n5) :
           zip_file = Archive(a, s, h, <<>>, u)
    /\ any_order = FALSE
    /\ Constructed

\* a session on a daily export over MaxDiary days: activities on any set
\* of days, a sleep record for each of the first n days
InitDiary ==
    /\ \E A \in SUBSET DiaryDays : \E n \in 0..MaxDiary :
       \E h \in DiaryHealth : \E u \in DiaryUds :
           zip_file = Archive(DiaryActivities(A), DiarySleep(1..n), h, <<>>, u)
    /\ any_order = FALSE
    /\ Constructed

\* an instance that is given one stream of Uploads after the other
InitReload ==
    /\ zip_file \in Uploads
    /\ any_order = FALSE
    /\ Constructed

\* no session is running: a single function is called
NoSession ==
    /\ zip_file = InvalidZip
    /\ temp_dir = NoFiles
    /\ pc = "call"
    /\ pending = {}
    /\ any_order = FALSE
    /\ extracted = 0
    /\ returned = [d \in Domains |-> NotRun]
    /\ reported = {}
    /\ activities_df = None
    /\ sleep_df = None
    /\ health_df = None
    /\ hydration_df = None
    /\ body_battery_df = Unset
    /\ stress_df = Unset
    /\ merged = None
    /\ outcome = "none"
    /\ corr_cols = <<>>
    /\ corr_data = <<>>
    /\ corr_outcome = "none"

session == <<zip_file, temp_dir, pc, pending, any_order, extracted, returned, reported,
             activities_df, sleep_df, health_df, hydration_df, body_battery_df, stress_df,
             merged, outcome, corr_cols, corr_data, corr_outcome>>

\* corr_data: MinCorrRows rows without a null, MinCorrCols columns of numbers
InitCorr ==
    /\ NoSession
    /\ column = <<>>
    /\ parsed = <<>>
    /\ frame \in [1..MinCorrRows -> [1..MinCorrCols -> 0..MaxValue]]
    /\ corr_matrix = None
    /\ found = <<>>
    /\ loaded = <<>>
    /\ daily = <<>>
    /\ corr_pairs_df = None

\* corr_matrix = corr_data.corr()
corr_call ==
    /\ frame # <<>>
    /\ corr_matrix = None
    /\ corr_matrix' = corr(frame)
    /\ UNCHANGED <<session, column, parsed, frame, found, loaded, daily, corr_pairs_df>>

\* the raw values of a column of timestamps
Numbers == {0, 1, 2, 9, 10, 1000, 1001, 10000000}
RawValues ==
    {<<"iso", d>> : d \in Days} \cup {<<"ms", d>> : d \in Days}
    \cup {<<"num", v>> : v \in Numbers}
    \cup {<<"none", 0>>, <<"absent", 0>>, <<"str", 0>>, <<"obj", 0>>}

\* a column of at most MaxColumn raw values, before the call
InitTimestamp ==
    /\ NoSession
    /\ \E n \in 0..MaxColumn : column \in [1..n -> RawValues]
    /\ parsed = <<>>
    /\ frame = <<>>
    /\ corr_matrix = None
    /\ found = <<>>
    /\ loaded = <<>>
    /\ daily = <<>>
    /\ corr_pairs_df = None

\* parsed = self.safe_parse_timestamp(column)
parse_call ==
    /\ parsed = <<>>
    /\ frame = <<>>
    /\ parsed' = safe_parse_timestamp(column)
    /\ UNCHANGED <<session, column, frame, corr_matrix, found, loaded, daily, corr_pairs_df>>

\* the keys of the primary timestamp, each with a day of its own
TimestampKeys == <<"startTimeLocal", "startTimeGmt", "beginTimestamp">>
RawOf(k, values) == {Absent, Null} \cup {<<k, v>> : v \in values}

\* activities that differ in their timestamp keys, in their distance and
\* duration keys, in their calorie and heart-rate keys
TimestampCases ==
    {[Activity(a) EXCEPT !.startTimeGmt = b, !.beginTimestamp = c] :
        a \in RawOf("ms", {1}), b \in RawOf("ms", {2}), c \in RawOf("ms", {3})}
UnitCases ==
    {[Activity(<<"ms", 1>>) EXCEPT !.distance = a, !.elapsedDuration = b, !.duration = c] :
        a \in RawOf("val", {500000, 123456}), b \in RawOf("val", {3600000}),
        c \in RawOf("val", {90000})}
CalorieCases ==
    {[Activity(<<"ms", 1>>) EXCEPT !.bmrCalories = a, !.calories = b, !.avgHr = c] :
        a \in RawOf("val", {300}), b \in RawOf("val", {450}), c \in RawOf("val", {120})}

\* one activities file of at most MaxBatch records, or no file
InitActivities ==
    /\ NoSession
    /\ column = <<>> /\ parsed = <<>>
    /\ frame = <<>> /\ corr_matrix = None
    /\ \E n \in 0..MaxBatch : \E cases \in {TimestampCases, UnitCases, CalorieCases} :
          \E recs \in [1..n -> cases] : found = DiaryFile(recs \o <<>>)
    /\ loaded = <<>>
    /\ daily = <<>>
    /\ corr_pairs_df = None

\* the sleepScores objects: all six fields, overallScore only, no field
FullScores ==
    [c \in ScoreColumns |->
        CASE c = "overallScore" -> 81 [] c = "qualityScore" -> 82
          [] c = "recoveryScore" -> 83 [] c = "durationScore" -> 84
          [] c = "deepScore" -> 85 [] OTHER -> 86]
ScoreObjects == {FullScores, [c \in {"overallScore"} |-> 70], <<>>}

\* nights that differ in their duration keys, in their sleepScores key
HourCases ==
    {[Night(<<"iso", 1>>) EXCEPT !.deepSleepSeconds = a, !.lightSleepSeconds = b,
                                 !.remSleepSeconds = c, !.awakeSleepSeconds = d] :
        a \in RawOf("val", {3600}), b \in {Null, <<"val", 7200>>},
        c \in {Absent, <<"val", 3600>>}, d \in {Absent, <<"val", 1800>>}}
ScoreCases ==
    {[Night(c) EXCEPT !.sleepScores = x] :
        c \in {<<"iso", 1>>, Null}, x \in RawOf("dict", ScoreObjects)}

\* one sleep file of at most MaxBatch records, or no file
InitSleep ==
    /\ NoSession
    /\ column = <<>> /\ parsed = <<>>
    /\ frame = <<>> /\ corr_matrix = None
    /\ \E n \in 0..MaxBatch : \E cases \in {HourCases, ScoreCases} :
          \E recs \in [1..n -> cases] : found = DiaryFile(recs \o <<>>)
    /\ loaded = <<>>
    /\ daily = <<>>
    /\ corr_pairs_df = None

\* loaded = self.load_sleep()
load_sleep_call ==
    /\ loaded = <<>>
    /\ loaded' = LoadSleep(found)
    /\ UNCHANGED <<session, column, parsed, frame, corr_matrix, found, daily, corr_pairs_df>>

\* health records of a calendar date with the metrics of a set of types
HealthCases ==
    {[calendarDate |-> c, metrics |-> m] :
        c \in {<<"iso", 1>>, <<"iso", 2>>, Null}, m \in SUBSET {"HRV", "HR"}}

\* at most MaxBatch records in two files (k in the first), or no file
InitHealth ==
    /\ NoSession
    /\ column = <<>> /\ parsed = <<>>
    /\ frame = <<>> /\ corr_matrix = None
    /\ \/ found = <<>>
       \/ \E n \in 0..MaxBatch : \E recs \in [1..n -> HealthCases] : \E k \in 0..n :
             found = <<RecordsFile(SubSeq(recs \o <<>>, 1, k)),
                       RecordsFile(SubSeq(recs \o <<>>, k + 1, n))>>
    /\ loaded = <<>>
    /\ daily = <<>>
    /\ corr_pairs_df = None

\* loaded = self.load_health()
load_health_call ==
    /\ loaded = <<>>
    /\ loaded' = LoadHealth(found)
    /\ UNCHANGED <<session, column, parsed, frame, corr_matrix, found, daily, corr_pairs_df>>

\* per-day records with or without a bodyBattery object and with a list of
\* stress aggregators
UdsCases ==
    {[calendarDate |-> c, bodyBattery |-> b, aggs |-> g] :
        c \in {<<"iso", 1>>, <<"iso", 2>>, Null},
        b \in BodyBatteryObjects(0) \cup BodyBatteryObjects(1),
        g \in {<<>>, <<[type |-> "TOTAL", nullDuration |-> FALSE]>>,
               <<[type |-> "TOTAL", nullDuration |-> FALSE],
                 [type |-> "AWAKE", nullDuration |-> FALSE]>>,
               <<[type |-> "TOTAL", nullDuration |-> TRUE]>>}}

\* one UDS file of at most MaxBatch records, or no file
InitUds ==
    /\ NoSession
    /\ column = <<>> /\ parsed = <<>>
    /\ frame = <<>> /\ corr_matrix = None
    /\ \E n \in 0..MaxBatch : \E recs \in [1..n -> UdsCases] : found = DiaryFile(recs \o <<>>)
    /\ loaded = <<>>
    /\ daily = <<>>
    /\ corr_pairs_df = None

\* loaded = self.load_body_battery_and_stress()
load_body_battery_and_stress_call ==
    /\ loaded = <<>>
    /\ loaded' = LoadBodyBatteryAndStress(found)
    /\ UNCHANGED <<session, column, parsed, frame, corr_matrix, found, daily, corr_pairs_df>>

\* activities of day 1 or 2 that differ in distance, bmrCalories, avgHr and
\* averageHR
DailyCases ==
    {[Activity(<<"ms", d>>) EXCEPT !.distance = a, !.bmrCalories = b, !.avgHr = c,
                                   !.averageHR = e] :
        d \in {1, 2}, a \in {Absent, <<"val", 500000>>}, b \in {Absent, <<"val", 300>>},
        c \in {Absent, <<"val", 120>>}, e \in RawOf("val", {130, 150})}

\* one activities file of at most MaxBatch records
InitDaily ==
    /\ NoSession
    /\ column = <<>> /\ parsed = <<>>
    /\ frame = <<>> /\ corr_matrix = None
    /\ \E n \in 1..MaxBatch : \E recs \in [1..n -> DailyCases] : found = DiaryFile(recs \o <<>>)
    /\ loaded = <<>>
    /\ daily = <<>>
    /\ corr_pairs_df = None

\* activities_daily = activities_df.groupby('date').agg(agg_dict) on the
\* table load_activities returned
groupby_call ==
    /\ loaded # <<>>
    /\ loaded.df # None
    /\ daily = <<>>
    /\ daily' = groupby_agg(loaded.df)
    /\ UNCHANGED <<session, column, parsed, frame, corr_matrix, found, loaded, corr_pairs_df>>

\* loaded = self.load_activities()
load_activities_call ==
    /\ loaded = <<>>
    /\ loaded' = LoadActivities(found)
    /\ UNCHANGED <<session, column, parsed, frame, corr_matrix, found, daily, corr_pairs_df>>

\* corr_pairs_df of the matrix (section 7, the strongest correlations)
rank_call ==
    /\ corr_matrix # None
    /\ corr_pairs_df = None
    /\ corr_pairs_df' \in sort_values(corr_pairs(corr_matrix))
    /\ UNCHANGED <<session, column, parsed, frame, corr_matrix, found, loaded, daily>>

\* variant: the extraction error is swallowed and the loaders run
extract_zip_Swallows ==
    /\ pc = "extract_zip"
    /\ extracted' = extracted + 1
    /\ temp_dir' = IF zip_file.valid THEN extractall(temp_dir, zip_file.files) ELSE temp_dir
    /\ pc' = "loaders"
    /\ UNCHANGED <<zip_file, pending, any_order, returned, reported, activities_df, sleep_df,
                   health_df, hydration_df, body_battery_df, stress_df, merged, outcome,
                   corr_cols, corr_data, corr_outcome, calls>>

\* extract_zip, the first statement of load_all_data
extract_zip ==
    /\ pc = "extract_zip"
    /\ extracted' = extracted + 1
    /\ IF zip_file.valid
       THEN /\ temp_dir' = extractall(temp_dir, zip_file.files)
            /\ pc' = "loaders"
       ELSE /\ temp_dir' = temp_dir
            /\ pc' = "raised"
    /\ UNCHANGED <<zip_file, pending, any_order, returned, reported, activities_df, sleep_df,
                   health_df, hydration_df, body_battery_df, stress_df, merged, outcome,
                   corr_cols, corr_data, corr_outcome, calls>>

find_files(d) == temp_dir[d]

\* load_all_data calls loader d next
Scheduled(d) ==
    /\ pc = "loaders"
    /\ d \in pending
    /\ any_order \/ \A e \in pending : Position(d) <= Position(e)

\* variant: the loader has no except branch, its exception leaves
\* load_all_data
Finish_Reraises(d, value, raised) ==
    /\ pending' = pending \ {d}
    /\ returned' = [returned EXCEPT ![d] = value]
    /\ reported' = IF raised THEN reported \cup {d} ELSE reported
    /\ pc' = IF raised THEN "raised"
             ELSE IF pending = {d} THEN "create_correlation_analysis" ELSE "loaders"
    /\ UNCHANGED <<zip_file, temp_dir, any_order, extracted, merged, outcome,
                   corr_cols, corr_data, corr_outcome, calls>>

\* variant: the last tab is drawn as soon as one loader has returned
Finish_MergesEarly(d, value, raised) ==
    /\ pending' = pending \ {d}
    /\ returned' = [returned EXCEPT ![d] = value]
    /\ reported' = IF raised THEN reported \cup {d} ELSE reported
    /\ pc' = "create_correlation_analysis"
    /\ UNCHANGED <<zip_file, temp_dir, any_order, extracted, merged, outcome,
                   corr_cols, corr_data, corr_outcome, calls>>

\* the bookkeeping of a loader call that returns
Finish(d, value, raised) ==
    /\ pending' = pending \ {d}
    /\ returned' = [returned EXCEPT ![d] = value]
    /\ reported' = IF raised THEN reported \cup {d} ELSE reported
    /\ pc' = IF pending = {d} THEN "create_correlation_analysis" ELSE "loaders"
    /\ UNCHANGED <<zip_file, temp_dir, any_order, extracted, merged, outcome,
                   corr_cols, corr_data, corr_outcome, calls>>

load_activities ==
    /\ Scheduled("activities")
    /\ LET r == LoadActivities(find_files("activities"))
       IN  /\ activities_df' = IF r.df = None THEN activities_df ELSE r.df
           /\ Finish("activities", r.df, r.raised)
    /\ UNCHANGED <<sleep_df, health_df, hydration_df, body_battery_df, stress_df>>

load_sleep ==
    /\ Scheduled("sleep")
    /\ LET r == LoadSleep(find_files("sleep"))
       IN  /\ sleep_df' = IF r.df = None THEN sleep_df ELSE r.df
           /\ Finish("sleep", r.df, r.raised)
    /\ UNCHANGED <<activities_df, health_df, hydration_df, body_battery_df, stress_df>>

\* variant: the health loader gives up when no sleep table is loaded yet
load_health_NeedsSleep ==
    /\ Scheduled("health")
    /\ LET r == IF sleep_df = None THEN Returned(None)
                ELSE LoadHealth(find_files("health"))
       IN  /\ health_df' = IF r.df = None THEN health_df ELSE r.df
           /\ Finish("health", r.df, r.raised)
    /\ UNCHANGED <<activities_df, sleep_df, hydration_df, body_battery_df, stress_df>>

load_health ==
    /\ Scheduled("health")
    /\ LET r == LoadHealth(find_files("health"))
       IN  /\ health_df' = IF r.df = None THEN health_df ELSE r.df
           /\ Finish("health", r.df, r.raised)
    /\ UNCHANGED <<activities_df, sleep_df, hydration_df, body_battery_df, stress_df>>

load_hydration ==
    /\ Scheduled("hydration")
    /\ LET r == LoadHydration(find_files("hydration"))
       IN  /\ hydration_df' = IF r.df = None THEN hydration_df ELSE r.df
           /\ Finish("hydration", r.df, r.raised)
    /\ UNCHANGED <<activities_df, sleep_df, health_df, body_battery_df, stress_df>>

\* self.body_battery_df, self.stress_df = self.load_body_battery_and_stress()
load_body_battery_and_stress ==
    /\ Scheduled("uds")
    /\ LET r == LoadBodyBatteryAndStress(find_files("uds"))
       IN  /\ body_battery_df' = r.bb
           /\ stress_df' = r.stress
           /\ Finish("uds", [kind |-> "tables", bb |-> r.bb, stress |-> r.stress], r.raised)
    /\ UNCHANGED <<activities_df, sleep_df, health_df, hydration_df>>

\* main(): the last tab calls create_correlation_analysis on the fields
\* load_all_data left
create_correlation_analysis ==
    /\ pc = "create_correlation_analysis"
    /\ LET r == CorrelationData(activities_df, sleep_df, body_battery_df, stress_df, health_df)
           c == IF r.outcome = "proceed" THEN CorrelationMatrix(r.merged, health_df)
                ELSE NoMatrix
       IN  /\ merged' = r.merged
           /\ outcome' = r.outcome
           /\ corr_cols' = c.cols
           /\ corr_data' = c.data
           /\ corr_outcome' = c.outcome
    /\ pc' = "done"
    /\ UNCHANGED <<zip_file, temp_dir, pending, any_order, extracted, returned, reported,
                   activities_df, sleep_df, health_df, hydration_df, body_battery_df,
                   stress_df, calls>>

\* load_all_data is called again on the instance, whose zip_file is now
\* another stream; the call starts from the fields the last call left
reload ==
    /\ pc = "done"
    /\ extracted < MaxLoads
    /\ zip_file' \in Uploads
    /\ pc' = "extract_zip"
    /\ pending' = Domains
    /\ returned' = [d \in Domains |-> NotRun]
    /\ reported' = {}
    /\ UNCHANGED <<temp_dir, any_order, extracted, activities_df, sleep_df, health_df,
                   hydration_df, body_battery_df, stress_df, merged, outcome,
                   corr_cols, corr_data, corr_outcome, calls>>

Next ==
    \/ extract_zip
    \/ load_activities
    \/ load_sleep
    \/ load_health
    \/ load_hydration
    \/ load_body_battery_and_stress
    \/ create_correlation_analysis

Spec == Init /\ [][Next]_vars

SpecAnyOrder == InitAnyOrder /\ [][Next]_vars

SpecExport == InitExport /\ [][Next]_vars

SpecDiary == InitDiary /\ [][Next]_vars

NextReload == Next \/ reload

SpecReload == InitReload /\ [][NextReload]_vars

NextCorr == corr_call \/ rank_call

SpecCorr == InitCorr /\ [][NextCorr]_vars

NextTimestamp == parse_call

SpecTimestamp == InitTimestamp /\ [][NextTimestamp]_vars

NextActivities == load_activities_call

SpecActivities == InitActivities /\ [][NextActivities]_vars

NextHealth == load_health_call

SpecHealth == InitHealth /\ [][NextHealth]_vars

NextUds == load_body_battery_and_stress_call

SpecUds == InitUds /\ [][NextUds]_vars

NextDaily == load_activities_call \/ groupby_call

SpecDaily == InitDaily /\ [][NextDaily]_vars

NextSleep == load_sleep_call

SpecSleep == InitSleep /\ [][NextSleep]_vars


(***************************************************************************)
(* Properties                                                              *)
(***************************************************************************)
Loaded == pc \in {"create_correlation_analysis", "done"}

\* what the call of loader d returns when it is given the files of the
\* archive that match its own pattern
ExpectedReturn(d) ==
    CASE d = "activities" -> LoadActivities(zip_file.files[d]).df
      [] d = "sleep" -> LoadSleep(zip_file.files[d]).df
      [] d = "health" -> LoadHealth(zip_file.files[d]).df
      [] d = "hydration" -> LoadHydration(zip_file.files[d]).df
      [] d = "uds" ->
           [kind |-> "tables",
            bb |-> LoadBodyBatteryAndStress(zip_file.files[d]).bb,
            stress |-> LoadBodyBatteryAndStress(zip_file.files[d]).stress]

NullReturn(d) ==
    IF d = "uds" THEN [kind |-> "tables", bb |-> None, stress |-> None] ELSE None

\* the six tables the session holds
Tables ==
    [activities |-> activities_df, sleep |-> sleep_df, health |-> health_df,
     hydration |-> hydration_df, body_battery |-> body_battery_df, stress |-> stress_df]

TableNames == {"activities", "sleep", "health", "hydration", "body_battery", "stress"}

\* C1: an exception raised inside a loader never reaches load_all_data: the
\* loader returns null for its table(s), load_all_data does not raise, and
\* once the load is over every other loader has returned what its own files
\* give.
C1_LoaderExceptionsIsolated ==
    \A d \in reported :
        /\ pc # "raised"
        /\ returned[d] = NullReturn(d)
        /\ Loaded => \A e \in Domains \ {d} :
                        returned[e] # NotRun /\ returned[e] = ExpectedReturn(e)

\* C1 witness: the load is over, a loader caught an exception and a loader
\* that ran after it produced a table
C1_Witness ==
    /\ Loaded
    /\ \E d \in reported : \E e \in Domains :
          /\ Position(d) < Position(e)
          /\ returned[e] # NullReturn(e)

\* C2: a domain without matching files gets a null table without an error
\* being reported, and every other domain still gets the table of its files.
C2_MissingDomainIsolated ==
    \A d \in Domains :
        (pc # "extract_zip" /\ zip_file.valid /\ zip_file.files[d] = <<>> /\ d \notin pending)
            => /\ returned[d] = NullReturn(d)
               /\ d \notin reported
               /\ Loaded => \A e \in Domains \ {d} :
                               zip_file.files[e] # <<>> => returned[e] = ExpectedReturn(e)

\* C2 witness: the load is over, one domain had no file and another domain,
\* loaded after it, has a table
C2_Witness ==
    /\ Loaded
    /\ \E d, e \in Domains :
          /\ zip_file.files[d] = <<>>
          /\ Position(d) < Position(e)
          /\ returned[e] \notin {NullReturn(e), NotRun}

\* C3: a failed extraction makes load_all_data raise before any loader is
\* called and no table is produced; after a successful extraction
\* load_all_data never raises, a loader is always callable until all five
\* have run, and it returns with all five run.
C3_OnlyExtractionAborts ==
    /\ pc = "raised" =>
          /\ ~ zip_file.valid
          /\ pending = Domains
          /\ \A d \in Domains : returned[d] = NotRun
          /\ \A n \in TableNames : Tables[n] \in {None, Unset}
    /\ (~ zip_file.valid /\ extracted > 0) => pc = "raised"
    /\ zip_file.valid =>
          /\ pc # "raised"
          /\ pc = "loaders" => \E d \in pending : Scheduled(d)
          /\ Loaded => pending = {} /\ \A d \in Domains : returned[d] # NotRun

\* C3 witness: the extraction failed and load_all_data raised
C3_Witness == pc = "raised" /\ extracted = 1

\* C4: the merger has run only if all five loaders have returned, and what
\* it built is built from the tables the loaders returned; extract_zip runs
\* exactly once, before any loader.
C4_MergerAfterLoaders ==
    /\ extracted <= 1
    /\ (pending # Domains \/ pc \notin {"extract_zip", "raised"}) => extracted = 1
    /\ pc = "create_correlation_analysis" => pending = {}
    /\ (pc = "done" \/ outcome # "none") =>
          /\ pending = {}
          /\ \A d \in Domains : returned[d] # NotRun
          /\ [merged |-> merged, outcome |-> outcome] =
                CorrelationData(returned["activities"], returned["sleep"],
                                returned["uds"].bb, returned["uds"].stress,
                                returned["health"])

\* C4 witness: the merger has run and built a merged table
C4_Witness == pc = "done" /\ merged # None

\* C5: in whatever order the five loaders are called after the extraction,
\* each loader returns, and the session ends up with, the tables of the
\* sequential order of load_all_data.
C5_AnyLoaderOrder ==
    /\ \A d \in Domains \ pending : returned[d] = ExpectedReturn(d)
    /\ Loaded =>
          /\ activities_df = ExpectedReturn("activities")
          /\ sleep_df = ExpectedReturn("sleep")
          /\ health_df = ExpectedReturn("health")
          /\ hydration_df = ExpectedReturn("hydration")
          /\ body_battery_df = ExpectedReturn("uds").bb
          /\ stress_df = ExpectedReturn("uds").stress

\* C5 witness: a loader has run before a loader that load_all_data calls
\* earlier, and both produced a table
C5_Witness ==
    \E d, e \in Domains :
        /\ Position(d) < Position(e)
        /\ d \in pending
        /\ e \notin pending
        /\ returned[e] # NullReturn(e)
        /\ ExpectedReturn(d) # NullReturn(d)

Dated(df) == df.kind = "df" => \A i \in 1..Len(df.rows) : df.rows[i].date \in Days

\* C6: every row of every table a loader returned has a non-null date key.
C6_AllRowsDated == \A n \in TableNames : Dated(Tables[n])

OneRowPerDate(df) ==
    df.kind = "df" =>
        \A i, j \in 1..Len(df.rows) : df.rows[i].date = df.rows[j].date => i = j

\* C7: the Sleep table and the Health-Status table hold at most one row per
\* calendar date.
C7_OneRowPerDate == OneRowPerDate(sleep_df) /\ OneRowPerDate(health_df)

\* C8: the merged table has no two rows with the same date key.
C8_NoDuplicateDates == OneRowPerDate(merged)

DatesOf(rows) == {rows[i].date : i \in 1..Len(rows)}

\* the rows the merger joins for each field of the merged table
Joined ==
    [num_activities |-> activities_df.rows,
     sleep |-> sleep_df.rows,
     body_battery |-> IF NonEmpty(body_battery_df) THEN body_battery_df.rows ELSE <<>>,
     stress |-> IF NonEmpty(stress_df) THEN stress_total(stress_df) ELSE <<>>,
     health |-> IF NonEmpty(health_df) THEN health_df.rows ELSE <<>>]

MergedFields == {"num_activities", "sleep", "body_battery", "stress", "health"}

\* C9: the dates of the merged table are the union of the dates of the
\* joined tables (Stress restricted to TOTAL); in a merged row the columns
\* of a domain are null exactly when the domain has no row for the date;
\* no merged row has a null date.
C9_MergedDatesAreUnion ==
    merged.kind = "df" =>
        /\ DatesOf(merged.rows) = UNION {DatesOf(Joined[f]) : f \in MergedFields}
        /\ \A i \in 1..Len(merged.rows) :
              /\ merged.rows[i].date \in Days
              /\ \A f \in MergedFields :
                    merged.rows[i][f] = NullVal
                        <=> merged.rows[i].date \notin DatesOf(Joined[f])

\* C9 witness: a merged table with a date only Activities has and a date
\* only Sleep has
C9_Witness ==
    /\ merged.kind = "df"
    /\ \E i, j \in 1..Len(merged.rows) :
          /\ merged.rows[i].sleep = NullVal
          /\ merged.rows[i].num_activities # NullVal
          /\ merged.rows[j].num_activities = NullVal
          /\ merged.rows[j].sleep # NullVal

C11_ProceedsFromFiveRows ==
    (pc = "done" /\ merged.kind = "df") =>
        /\ outcome \in {"proceed", "too_few"}
        /\ outcome = "proceed" <=> Len(merged.rows) >= 5
        /\ outcome = "proceed" <=> corr_outcome # "none"
        /\ outcome = "too_few" => corr_cols = <<>> /\ corr_data = <<>>

\* C11 witness: a merged table of exactly five rows, and the merger proceeded
C11_Witness ==
    pc = "done" /\ merged.kind = "df" /\ Len(merged.rows) = 5 /\ outcome = "proceed"
Range(seq) == {seq[i] : i \in 1..Len(seq)}

\* the table a merged row takes column c from has a row for the date of r,
\* and that row holds a value for c
CellPresent(r, c) ==
    /\ r.date \in DatesOf(Joined[ColumnField(c)])
    /\ c \in {"HRV_value", "HR_value"} =>
          \E i \in 1..Len(health_df.rows) :
              /\ health_df.rows[i].idx = r.health
              /\ MetricOf(c) \in health_df.rows[i].metrics

\* C12: once the merger proceeds, the selected columns are the curated
\* candidates the merged table has, the correlation data are exactly the
\* merged rows without a null in a selected column, and the matrix is
\* computed exactly when at least 3 such rows and at least 3 columns remain;
\* otherwise the notice is shown and no matrix is produced.
C12_MatrixOverCompleteRows ==
    /\ outcome # "proceed" => corr_outcome = "none"
    /\ outcome = "proceed" =>
          /\ Range(corr_cols) = Range(corr_candidates) \cap merged.cols
          /\ Range(corr_data) =
                {r \in Range(merged.rows) : \A c \in Range(corr_cols) : CellPresent(r, c)}
          /\ Len(corr_data) = Cardinality(Range(corr_data))
          /\ corr_outcome \in {"matrix", "insufficient"}
          /\ corr_outcome = "matrix" <=> (Len(corr_data) >= 3 /\ Len(corr_cols) >= 3)

\* C12 witness: the matrix is computed, a merged row was left out because
\* its health record lacks a metric and another because a table has no row
\* for its date
C12_Witness ==
    /\ corr_outcome = "matrix"
    /\ \E r \in Range(merged.rows) \ Range(corr_data) :
          r.health # NullVal /\ r.num_activities # NullVal /\ r.sleep # NullVal
    /\ \E r \in Range(merged.rows) \ Range(corr_data) : r.num_activities = NullVal

\* the coefficient of an entry is 1, is between -1 and 1
IsOne(e) == e.kind = "r" /\ e.num > 0 /\ e.num * e.num = e.den2
InUnitRange(e) == e.kind = "r" /\ e.num * e.num <= e.den2

\* C13: a correlation matrix is symmetric, has 1 in every diagonal entry and
\* only entries in [-1, 1], and is the same when computed again from the
\* same table, also when a column holds one value in all rows.
C13_MatrixWellFormed ==
    corr_matrix # None =>
        /\ corr_matrix = corr(frame)
        /\ \A i, j \in 1..Len(corr_matrix) :
              /\ corr_matrix[i][j] = corr_matrix[j][i]
              /\ InUnitRange(corr_matrix[i][j])
              /\ i = j => IsOne(corr_matrix[i][j])

\* the numeric values of the column and their maximum
NumericAt(series) == {i \in 1..Len(series) : is_numeric(series[i])}
Classified(series) ==
    /\ NumericAt(series) # {}
    /\ \A i \in 1..Len(series) : series[i][1] # "obj"
max_value(series) == MaxOf({Number(series[i]) : i \in NumericAt(series)})
Unit(series) ==
    IF max_value(series) > MsThreshold THEN "ms"
    ELSE IF max_value(series) > SecThreshold THEN "s" ELSE "ns"

\* C14 as stated: when the maximum of the numeric values of a column is above
\* 1e12 every numeric value v comes out as the instant v milliseconds (v/1000
\* seconds) after the epoch, also the values below the threshold; when the
\* maximum is in (1e9, 1e12] every numeric value v comes out as the instant v
\* seconds after the epoch.
C14_EveryNumericValueConverted ==
    (parsed # <<>> /\ Classified(column) /\ Unit(column) \in {"ms", "s"}) =>
        \A i \in NumericAt(column) :
            parsed.values[i] = Timestamp(Unit(column), Number(column[i]))

\* an instant a Timestamp can hold (up to 2262-04-11)
Representable(v, unit) ==
    /\ unit = "ms" => v <= MaxMillis
    /\ unit = "s" => v <= MaxSeconds

\* C14 (amended): the unit is chosen by the maximum of the numeric values
\* (milliseconds above 1e12, seconds in (1e9, 1e12]) and applied to every
\* numeric value v of the column: v comes out as the instant v units after
\* the epoch when a Timestamp can hold that instant, and as null otherwise.
C14_RepresentableValuesConverted ==
    (parsed # <<>> /\ Classified(column) /\ Unit(column) \in {"ms", "s"}) =>
        \A i \in NumericAt(column) :
            parsed.values[i] =
                IF Representable(Number(column[i]), Unit(column))
                THEN Timestamp(Unit(column), Number(column[i]))
                ELSE NotATime

\* a column classified as milliseconds with a value below 1e12 in it, and a
\* column classified as seconds with a value no Timestamp can hold
C14_Witness ==
    /\ parsed # <<>>
    /\ Classified(column)
    /\ Unit(column) = "ms"
    /\ \E i \in NumericAt(column) :
          /\ Number(column[i]) <= SecThreshold
          /\ Number(column[i]) > 0
          /\ parsed.values[i] = Timestamp("ms", Number(column[i]))
    /\ \E i \in NumericAt(column) : parsed.values[i] = NotATime

\* C15: safe_parse_timestamp never raises; it returns a column as long as
\* its input, null wherever the input is null (so all null for an all-null
\* input), and when a step of the classification raises the result is the
\* value-by-value string parsing of the column.
C15_NeverRaisesNullsStayNull ==
    parsed # <<>> =>
        /\ parsed.kind = "column"
        /\ Len(parsed.values) = Len(column)
        /\ \A i \in 1..Len(column) : isna(column[i]) => parsed.values[i] = NotATime
        /\ (\E i \in 1..Len(column) : column[i][1] = "obj" /\ ~ \A j \in 1..Len(column) : isna(column[j])) =>
              /\ parsed.fallback
              /\ \A i \in 1..Len(column) : parsed.values[i] = to_timestamp(column[i])

\* the call returned from the except branch for a column with a null and a
\* calendar string in it
C15_Witness ==
    /\ parsed # <<>>
    /\ parsed.kind = "column"
    /\ parsed.fallback
    /\ \E i, j, k \in 1..Len(column) :
          /\ isna(column[i]) /\ parsed.values[i] = NotATime
          /\ column[j][1] = "iso" /\ parsed.values[j] = Timestamp("ms", DayZero + column[j][2])
          /\ column[k][1] = "obj"

\* the records of the file a loader was called on, and the rows it returned
Batch == IF found = <<>> THEN <<>> ELSE found[1].recs
Rows == IF loaded = <<>> \/ loaded.df = None THEN {} ELSE Range(loaded.df.rows)

\* the timestamp keys the batch has, by their place in the order
PresentKeys == {k \in 1..Len(TimestampKeys) : InColumns(Batch, TimestampKeys[k])}
FirstKey == TimestampKeys[CHOOSE k \in PresentKeys : \A j \in PresentKeys : k <= j]

\* C16: the primary timestamp of the Activities table is the first column
\* present in the order startTimeLocal, startTimeGmt, beginTimestamp: the
\* rows are the records with a timestamp in that column, dated by it; with
\* none of the three present the loader returns null.
C16_FirstPresentTimestampColumn ==
    loaded # <<>> =>
        /\ ~ loaded.raised
        /\ PresentKeys = {} => loaded.df = None
        /\ PresentKeys # {} =>
              /\ \A i \in 1..Len(Batch) :
                    Batch[i][FirstKey][1] = "ms" <=>
                        \E r \in Rows : r.idx = i /\ r.date = Batch[i][FirstKey][2]
              /\ \A r \in Rows : r.idx \in 1..Len(Batch)
              /\ loaded.df = None <=> Rows = {}

\* a table dated by startTimeGmt, from a batch without startTimeLocal
\* that has beginTimestamp values too
C16_Witness ==
    /\ loaded # <<>>
    /\ PresentKeys # {}
    /\ FirstKey = "startTimeGmt"
    /\ \E r \in Rows :
          /\ Batch[r.idx].beginTimestamp[1] = "ms"
          /\ r.date = Batch[r.idx].startTimeGmt[2]
          /\ r.date # Batch[r.idx].beginTimestamp[2]

\* the raw duration of a row: elapsedDuration when the batch has that
\* column, else duration
RawDuration(rec) ==
    IF InColumns(Batch, "elapsedDuration") THEN rec.elapsedDuration ELSE rec.duration

\* C17: in every Activities row distance_km is the raw distance / 100000
\* and duration_minutes the raw duration / 60000 (500000 gives 5, 3600000
\* gives 60); a null or absent raw value gives 0; the raw duration is
\* elapsedDuration whenever the batch has that column.
C17_UnitsConverted ==
    \A r \in Rows :
        LET rec == Batch[r.idx]
        IN  /\ r.distance_km = IF rec.distance[1] = "val"
                                THEN Ratio(rec.distance[2], 100000) ELSE <<0, 1>>
            /\ r.duration_minutes = IF RawDuration(rec)[1] = "val"
                                     THEN Ratio(RawDuration(rec)[2], 60000) ELSE <<0, 1>>
            /\ rec.distance = <<"val", 500000>> => r.distance_km = <<5, 1>>
            /\ RawDuration(rec) = <<"val", 3600000>> => r.duration_minutes = <<60, 1>>

\* a row with distance 500000 and elapsedDuration 3600000 beside a duration,
\* and a row without elapsedDuration whose duration is not used
C17_Witness ==
    /\ \E r \in Rows :
          /\ Batch[r.idx].distance = <<"val", 500000>>
          /\ Batch[r.idx].elapsedDuration = <<"val", 3600000>>
          /\ Batch[r.idx].duration[1] = "val"
          /\ r.distance_km = <<5, 1>>
          /\ r.duration_minutes = <<60, 1>>
    /\ \E r \in Rows :
          /\ Batch[r.idx].elapsedDuration[1] # "val"
          /\ Batch[r.idx].duration[1] = "val"
          /\ r.duration_minutes = <<0, 1>>

\* C18: in every Activities row activeCalories is the bmrCalories value when
\* the record has one and is the nominal calories value only when the batch
\* has no bmrCalories; it is 0 when the batch has neither column; a null
\* calorie or heart-rate value becomes 0 and the row is kept.
C18_ActiveCaloriesFromBmr ==
    /\ \A r \in Rows :
          LET rec == Batch[r.idx]
          IN  /\ rec.bmrCalories[1] = "val" => r.activeCalories = rec.bmrCalories[2]
              /\ (rec.calories[1] = "val" /\ r.activeCalories = rec.calories[2]) =>
                    ~ InColumns(Batch, "bmrCalories")
              /\ (~ InColumns(Batch, "bmrCalories") /\ rec.calories[1] = "val") =>
                    r.activeCalories = rec.calories[2]
              /\ (~ InColumns(Batch, "bmrCalories") /\ ~ InColumns(Batch, "calories")) =>
                    r.activeCalories = 0
              /\ rec.bmrCalories = Null => r.activeCalories = 0
              /\ (~ InColumns(Batch, "bmrCalories") /\ rec.calories = Null) =>
                    r.activeCalories = 0
              /\ r.avgHr = IF rec.avgHr[1] = "val" THEN rec.avgHr[2] ELSE 0
    /\ loaded # <<>> =>
          \A i \in 1..Len(Batch) :
              Batch[i].startTimeLocal[1] = "ms" => \E r \in Rows : r.idx = i

\* a kept row whose bmrCalories and avgHr are null and whose calories is a
\* value: activeCalories and avgHr are 0
C18_Witness ==
    \E r \in Rows :
        /\ Batch[r.idx].bmrCalories = Null
        /\ Batch[r.idx].avgHr = Null
        /\ Batch[r.idx].calories[1] = "val"
        /\ r.activeCalories = 0
        /\ r.avgHr = 0

\* seconds / 3600 of a raw value, 0 for a null or absent one
InHours(v) == IF v[1] = "val" THEN Ratio(v[2], 3600) ELSE <<0, 1>>

\* C19: in every Sleep row totalSleepHours is deepSleepSeconds/3600 +
\* lightSleepSeconds/3600 + remSleepSeconds/3600, a null or absent
\* component counting 0; the time awake does not contribute (1h deep, 2h
\* light, 1h rem, 0.5h awake give 4).
C19_TotalSleepExcludesAwake ==
    \A r \in Rows :
        LET rec == Batch[r.idx]
        IN  /\ r.totalSleepHours =
                  Plus(Plus(InHours(rec.deepSleepSeconds), InHours(rec.lightSleepSeconds)),
                       InHours(rec.remSleepSeconds))
            /\ ( /\ rec.deepSleepSeconds = <<"val", 3600>>
                 /\ rec.lightSleepSeconds = <<"val", 7200>>
                 /\ rec.remSleepSeconds = <<"val", 3600>>
                 /\ rec.awakeSleepSeconds = <<"val", 1800>> ) => r.totalSleepHours = <<4, 1>>

\* a night of 1h deep, 2h light, 1h rem and 0.5h awake with 4 hours of
\* sleep, and a night with a null or absent component
C19_Witness ==
    /\ \E r \in Rows :
          /\ Batch[r.idx].deepSleepSeconds = <<"val", 3600>>
          /\ Batch[r.idx].lightSleepSeconds = <<"val", 7200>>
          /\ Batch[r.idx].remSleepSeconds = <<"val", 3600>>
          /\ Batch[r.idx].awakeSleepSeconds = <<"val", 1800>>
          /\ r.awakeHours = <<1, 2>>
          /\ r.totalSleepHours = <<4, 1>>
    /\ \E r \in Rows :
          /\ Batch[r.idx].deepSleepSeconds[1] # "val"
          /\ Batch[r.idx].lightSleepSeconds[1] # "val"
          /\ r.totalSleepHours = InHours(Batch[r.idx].remSleepSeconds)

\* the score columns of a returned Sleep table hold, for each night, the
\* fields of its score object, and null without a score object
ScoresExpanded ==
    \A r \in Rows :
        LET x == Batch[r.idx].sleepScores
        IN  \A c \in ScoreColumns :
                r.scores[c] = IF x[1] = "dict" /\ c \in DOMAIN x[2] THEN x[2][c] ELSE NullVal

SleepLoaded == loaded # <<>> /\ loaded.df # None

\* C20 as stated: every Sleep table the loader returns has the six score
\* columns, holding the fields of the night's score object or null, also
\* when no record of the batch holds a score object.
C20_ScoreColumnsAlways ==
    SleepLoaded => (ScoreColumns \subseteq loaded.df.cols /\ ScoresExpanded)

\* C20 (amended): a Sleep table has the six score columns when a record of
\* the batch has the sleepScores key, and then they hold the fields of the
\* night's score object or null; it has none of the six when no record of
\* the batch has that key.
C20_ScoreColumnsWhenKeyInBatch ==
    SleepLoaded =>
        IF \E i \in 1..Len(Batch) : Batch[i].sleepScores # Absent
        THEN ScoreColumns \subseteq loaded.df.cols /\ ScoresExpanded
        ELSE ScoreColumns \cap loaded.df.cols = {}

\* a table with the score columns: a night with all six scores, and a night
\* without a score object whose six columns are null
C20_Witness ==
    /\ SleepLoaded
    /\ ScoreColumns \subseteq loaded.df.cols
    /\ \E r \in Rows :
          /\ Batch[r.idx].sleepScores = <<"dict", FullScores>>
          /\ r.scores = FullScores
    /\ \E r \in Rows :
          /\ Batch[r.idx].sleepScores = Absent
          /\ \A c \in ScoreColumns : r.scores[c] = NullVal

\* the records of all the files a loader was called on
BatchOfFiles == AllRecords(found)

\* C21: the Health-Status table has, for every metric type X of any record
\* of the batch (all files, dropped records too), the five columns of X and
\* no other metric column; a row holds the fields of the metrics of its own
\* record and null in the columns of every other type.
C21_SchemaIsUnionOverBatch ==
    (loaded # <<>> /\ loaded.df # None) =>
        /\ loaded.df.cols =
              {X \o f : X \in UNION {BatchOfFiles[i].metrics : i \in 1..Len(BatchOfFiles)},
                        f \in MetricFields}
        /\ \A r \in Rows : r.metrics = BatchOfFiles[r.idx].metrics

\* a table of two rows from two files, one row with HRV and one without,
\* both with the HRV columns
C21_Witness ==
    /\ loaded # <<>>
    /\ Len(found) = 2
    /\ found[1].recs # <<>>
    /\ found[2].recs # <<>>
    /\ \E r, q \in Rows : "HRV" \in r.metrics /\ "HRV" \notin q.metrics
    /\ {"HRV" \o f : f \in MetricFields} \subseteq loaded.df.cols

\* the intake events of the hydration files of the archive
IntakeEvents == AllRecords(temp_dir["hydration"])

\* C22: the Hydration table has exactly one row per intake event of the
\* matching files, in their order: an event without a recognized timestamp
\* is kept, and the row of an event without timestampGMT has no date.
C22_OneRowPerIntakeEvent ==
    returned["hydration"] # NotRun =>
        /\ (IntakeEvents # <<>> /\ "hydration" \notin reported) =>
              returned["hydration"] # None
        /\ returned["hydration"] # None =>
              /\ Len(returned["hydration"].rows) = Len(IntakeEvents)
              /\ \A i \in 1..Len(IntakeEvents) :
                    /\ returned["hydration"].rows[i].idx = i
                    /\ IntakeEvents[i].timestampGMT = Absent =>
                          returned["hydration"].rows[i].date = NaT

\* a table of two rows: an event without timestampGMT beside a dated one
C22_Witness ==
    /\ returned["hydration"] \notin {NotRun, None}
    /\ Len(returned["hydration"].rows) = 2
    /\ \E i, j \in 1..2 :
          /\ IntakeEvents[i].timestampGMT = Absent
          /\ returned["hydration"].rows[i].date = NaT
          /\ IntakeEvents[j].timestampGMT[1] = "ms"
          /\ returned["hydration"].rows[j].date = IntakeEvents[j].timestampGMT[2]

\* the rows of day d of a table the shared loader returned, and the records
\* of day d of its batch that satisfy a condition
RowsOfDay(table, d) ==
    IF table = None THEN {} ELSE {i \in 1..Len(table.rows) : table.rows[i].date = d}
HasBodyBattery(i) == BatchOfFiles[i].bodyBattery.has
DayOfRecord(i) == IF BatchOfFiles[i].calendarDate[1] = "iso" THEN BatchOfFiles[i].calendarDate[2] ELSE NaT
RECURSIVE Total(_, _)
Total(f, S) ==
    IF S = {} THEN 0
    ELSE LET x == CHOOSE y \in S : TRUE IN f[x] + Total(f, S \ {x})

NullDuration(i) == \E j \in 1..Len(BatchOfFiles[i].aggs) : BatchOfFiles[i].aggs[j].nullDuration

\* C29: when a record of the batch has a stress aggregator with a null
\* duration, the shared loader reports the error and returns null for both
\* tables, whatever rows the other records gave.
C29_FailsAsAUnit ==
    (loaded # <<>> /\ \E i \in 1..Len(BatchOfFiles) : NullDuration(i)) =>
        /\ loaded.raised
        /\ loaded.bb = None
        /\ loaded.stress = None

\* both tables null for a batch whose first record has a dated Body-Battery
\* object and a stress aggregator and whose second record raises
C29_Witness ==
    /\ loaded # <<>>
    /\ Len(BatchOfFiles) = 2
    /\ HasBodyBattery(1) /\ DayOfRecord(1) # NaT /\ BatchOfFiles[1].aggs # <<>>
    /\ ~ NullDuration(1) /\ NullDuration(2)
    /\ loaded.bb = None /\ loaded.stress = None /\ loaded.raised

\* C24: none of the six tables is empty: a table is null or has a row.
C24_NoEmptyTable ==
    \A n \in TableNames : Tables[n].kind = "df" => Tables[n].rows # <<>>

\* the activities of date d in the table the loader returned
ActivitiesOn(d) == RowsOn(loaded.df.rows, d)

\* activities_daily has one row per date of the Activities table, holding
\* the number of activities and the sums of distance, calories and duration
CountAndSums ==
    /\ \A i, j \in 1..Len(daily.rows) : daily.rows[i].date = daily.rows[j].date => i = j
    /\ {daily.rows[i].date : i \in 1..Len(daily.rows)} =
          {loaded.df.rows[i].date : i \in 1..Len(loaded.df.rows)}
    /\ \A i \in 1..Len(daily.rows) :
          LET on == ActivitiesOn(daily.rows[i].date)
          IN  /\ daily.rows[i].num_activities = Len(on)
              /\ daily.rows[i].distance = SumRatios([k \in 1..Len(on) |-> on[k].distance_km])
              /\ daily.rows[i].calories = SumOf([k \in 1..Len(on) |-> on[k].activeCalories])
              /\ daily.rows[i].duration =
                    SumRatios([k \in 1..Len(on) |-> on[k].duration_minutes])

\* C25: activities_daily has one row per date with the number of
\* activities, the sums of distance, calories and duration and the mean of
\* the heart rate (the loader's avgHr) of that date's activities.
C25_DailyAggregates ==
    daily # <<>> =>
        /\ CountAndSums
        /\ "avg_hr" \in daily.cols
        /\ \A i \in 1..Len(daily.rows) :
              LET on == ActivitiesOn(daily.rows[i].date)
              IN  daily.rows[i].avg_hr = Ratio(SumOf([k \in 1..Len(on) |-> on[k].avgHr]), Len(on))

\* a value that is null or empty, or that is neither a number nor a
\* calendar string
FailsEveryStep(v) == v[1] \in {"none", "absent", "str", "obj"}

\* the column is read as epoch milliseconds or seconds
ReadAsEpoch(series) == Classified(series) /\ Unit(series) \in {"ms", "s"}

\* C26 as stated: an output is null only where the value is null or empty or
\* is neither a number nor a calendar string, and a calendar string is
\* converted to its timestamp whatever the other values of the column are.
C26_NullOnlyIfEveryStepFails ==
    parsed # <<>> =>
        \A i \in 1..Len(column) :
            /\ parsed.values[i] = NotATime => FailsEveryStep(column[i])
            /\ column[i][1] = "iso" =>
                  parsed.values[i] = Timestamp("ms", DayZero + column[i][2])

\* C26 (amended): an output is null only where the value is null or empty or
\* is neither a number nor a calendar string, or where the column is read
\* as epoch milliseconds or seconds (it has a number above 1e9) and the
\* value is a calendar string or a number whose instant no timestamp holds;
\* a calendar string is converted exactly when the column is not read as
\* epoch milliseconds or seconds.
C26_NullOnlyIfUnreadInColumn ==
    parsed # <<>> =>
        \A i \in 1..Len(column) :
            /\ parsed.values[i] = NotATime =>
                  \/ FailsEveryStep(column[i])
                  \/ /\ ReadAsEpoch(column)
                     /\ \/ column[i][1] = "iso"
                        \/ ~ Representable(Number(column[i]), Unit(column))
            /\ column[i][1] = "iso" =>
                  IF ReadAsEpoch(column) THEN parsed.values[i] = NotATime
                  ELSE parsed.values[i] = Timestamp("ms", DayZero + column[i][2])

\* a calendar string that is null beside an epoch-milliseconds number, in a
\* column whose number is converted
C26_Witness ==
    /\ parsed # <<>>
    /\ \E i, j \in 1..Len(column) :
          /\ column[i][1] = "iso" /\ parsed.values[i] = NotATime
          /\ column[j][1] = "ms" /\ parsed.values[j] = Timestamp("ms", DayZero + column[j][2])

\* C28: after every call of load_all_data on an instance, each of
\* activities_df, sleep_df, health_df and hydration_df is the value its
\* loader returned in that call: no table of an earlier call is left where
\* the loader now returned null.
C28_FieldsAreLastReturn ==
    pc \in {"create_correlation_analysis", "done"} =>
        /\ activities_df = returned["activities"]
        /\ sleep_df = returned["sleep"]
        /\ health_df = returned["health"]
        /\ hydration_df = returned["hydration"]

\* the statistics the statistics lists of the batch hold
StatsOfBatch ==
    UNION {AllRecords(temp_dir["uds"])[i].bodyBattery.stats :
              i \in {j \in 1..Len(AllRecords(temp_dir["uds"])) :
                        AllRecords(temp_dir["uds"])[j].bodyBattery.has}}

\* C30: with Activities and Sleep loaded, a non-empty Body-Battery table is
\* joined exactly when the batch's statistics lists hold a HIGHEST and a
\* LOWEST statistic, every row of it then appearing in the merged table;
\* when one of the two is missing the merge step ends in its except
\* branch and there is no merged table and no correlation matrix, however
\* many dates Activities and Sleep have.
C30_JoinNeedsStatColumns ==
    (pc = "done" /\ NonEmpty(activities_df) /\ NonEmpty(sleep_df)
        /\ NonEmpty(body_battery_df)) =>
        IF {"HIGHEST", "LOWEST"} \subseteq StatsOfBatch
        THEN /\ outcome \in {"too_few", "proceed"}
             /\ merged # None
             /\ \A i \in 1..Len(body_battery_df.rows) :
                   \E k \in 1..Len(merged.rows) :
                       /\ merged.rows[k].date = body_battery_df.rows[i].date
                       /\ merged.rows[k].body_battery = body_battery_df.rows[i].idx
        ELSE /\ outcome = "error"
             /\ merged = None
             /\ corr_outcome = "none"
             /\ corr_data = <<>>

\* the merge step failed for a batch with a HIGHEST and no LOWEST
\* statistic, Activities and Sleep having MinMergedRows dates each
C30_Witness ==
    /\ pc = "done"
    /\ outcome = "error"
    /\ StatsOfBatch = {"HIGHEST"}
    /\ NonEmpty(activities_df) /\ NonEmpty(sleep_df)
    /\ Cardinality(DatesOf(activities_df.rows)) >= MinMergedRows
    /\ Cardinality(DatesOf(sleep_df.rows)) >= MinMergedRows

\* the entries of the ranked list that hold columns i and j
EntriesOf(i, j) ==
    {k \in 1..Len(corr_pairs_df) :
        {corr_pairs_df[k].var1, corr_pairs_df[k].var2} = {i, j}}

\* C27: the ranked list of a matrix over n columns has n*(n-1)/2 entries,
\* one for every unordered pair of distinct columns and none for a column
\* with itself, each with the coefficient of its pair, in non-increasing
\* order of the absolute coefficient (entries without a coefficient last).
C27_EveryPairOnceRanked ==
    corr_pairs_df # None =>
        LET n == Len(corr_matrix)
        IN  /\ 2 * Len(corr_pairs_df) = n * (n - 1)
            /\ \A i, j \in 1..n : i # j => Cardinality(EntriesOf(i, j)) = 1
            /\ \A k \in 1..Len(corr_pairs_df) :
                  /\ corr_pairs_df[k].var1 # corr_pairs_df[k].var2
                  /\ corr_pairs_df[k].corr =
                        corr_matrix[corr_pairs_df[k].var1][corr_pairs_df[k].var2]
            /\ \A k, l \in 1..Len(corr_pairs_df) :
                  k < l =>
                      /\ corr_pairs_df[k].corr = NaN => corr_pairs_df[l].corr = NaN
                      /\ (corr_pairs_df[k].corr # NaN /\ corr_pairs_df[l].corr # NaN) =>
                            AbsAtLeast(corr_pairs_df[k].corr, corr_pairs_df[l].corr)

\* a ranked list of three coefficients of different size, not in the order
\* of the columns
C27_Witness ==
    /\ corr_pairs_df # None
    /\ Len(corr_pairs_df) = 3
    /\ \A k \in 1..3 : corr_pairs_df[k].corr # NaN
    /\ ~ AbsAtLeast(corr_pairs_df[2].corr, corr_pairs_df[1].corr)
    /\ ~ AbsAtLeast(corr_pairs_df[3].corr, corr_pairs_df[2].corr)
    /\ corr_pairs_df # corr_pairs(corr_matrix)
====
